---- MODULE Spec2Model ----
(***************************************************************************)
(* Model of the orchestrator of src/orchestrator.py: the plan sanitation   *)
(* of answer_master_question, the dependency scheduler of orchestrate and  *)
(* the per-step argument pipeline of orchestrate.run_step.                 *)
(*                                                                         *)
(* Python strings are sequences of one-character strings, so that          *)
(* substring tests and str.replace are computed and not assumed.           *)
(* Python dicts are functions from keys to values; a value is a record     *)
(* [k |-> kind, v |-> payload] with kind "str", "num", "bool" or "dict".   *)
(***************************************************************************)
EXTENDS Integers, Sequences, FiniteSets, TLC

VARIABLES
    question,   \* master_question, as the features the code tests it for
    graph,      \* CapabilityGraph.tools: the tool keys, in insertion order
    llmPlan,    \* what the planning LLM call does (answer_master_question)
    plan,       \* Plan.steps
    pc,         \* position of answer_master_question / orchestrate
    pending,    \* orchestrate: ids of the pending dict
    results,    \* orchestrate: the results dict, in insertion order
    batch,      \* orchestrate: ids of the ready list being gathered
    tasks,      \* orchestrate: state of the run_step task of each batch id
    ordered,    \* orchestrate: the list `ordered` at return
    summary,    \* orchestrate: the returned "summary" text
    argLLM,     \* the replies the argument-synthesis LLM call may give
    content,    \* safe_load_plan: its argument
    decoded,    \* safe_load_plan: what it returned
    server_entries, \* build_capability_graph: the entries of server_scripts
    discovered, \* build_capability_graph: what discovery does for each server
    toolResult, \* _call_tool / call_tool: what session.call_tool does
    toolText,   \* _call_tool / call_tool: what each of them returns
    router,     \* handle_question: the environment and the routing LLM reply
    route,      \* handle_question: server, tool, arguments of llm_route_task
    effects,    \* handle_question: server launched, tool invoked
    answer      \* handle_question: what it returned or raised

vars == <<question, graph, llmPlan, plan, pc, pending, results, batch, tasks,
          ordered, summary, argLLM, content, decoded, server_entries,
          discovered, toolResult, toolText, router, route, effects, answer>>

-----------------------------------------------------------------------------
(* Bounds of the model *)

\* longest plan given to orchestrate / longest list of steps the planning
\* LLM proposes
MaxSteps == 2

\* orchestrate(max_retries=1)
MaxRetries == 1

\* Steps of the plans of SpecBatch
BatchSteps == 3

\* longest content list of a tool result
MaxItems == 2

-----------------------------------------------------------------------------
(* Text *)

EmptyText == <<>>

\* Python: p in s, at position i
IsPrefixAt(s, p, i) ==
    /\ i >= 1
    /\ i + Len(p) - 1 <= Len(s)
    /\ SubSeq(s, i, i + Len(p) - 1) = p

\* Python: p in s
Contains(s, p) == \E i \in 1..(Len(s) + 1) : IsPrefixAt(s, p, i)

\* Python: s.startswith(p)
StartsWith(s, p) == IsPrefixAt(s, p, 1)

RECURSIVE ReplaceFrom(_, _, _, _)
ReplaceFrom(s, p, r, i) ==
    IF i > Len(s) THEN <<>>
    ELSE IF IsPrefixAt(s, p, i)
         THEN r \o ReplaceFrom(s, p, r, i + Len(p))
         ELSE <<s[i]>> \o ReplaceFrom(s, p, r, i + 1)

\* Python: s.replace(p, r), p not empty
Replace(s, p, r) == ReplaceFrom(s, p, r, 1)

RECURSIVE Join(_, _)
\* Python: sep.join(parts)
Join(sep, parts) ==
    IF Len(parts) = 0 THEN <<>>
    ELSE IF Len(parts) = 1 THEN parts[1]
    ELSE parts[1] \o sep \o Join(sep, Tail(parts))

DecimalDigits == <<"0", "1", "2", "3", "4", "5", "6", "7", "8", "9">>

RECURSIVE IntToText(_)
\* Python: str(n) for n >= 0
IntToText(n) ==
    IF n < 10 THEN <<DecimalDigits[n + 1]>>
    ELSE IntToText(n \div 10) \o <<DecimalDigits[(n % 10) + 1]>>

\* f"step_{n}"
StepId(n) == <<"s", "t", "e", "p", "_">> \o IntToText(n)

\* an id written in capitals, as the marker "${STEP_" of run_step expects
UpperStepId(n) == <<"S", "T", "E", "P", "_">> \o IntToText(n)

\* f"${{{sid}_OUTPUT}}"
Placeholder(sid) ==
    <<"$", "{">> \o sid \o <<"_", "O", "U", "T", "P", "U", "T", "}">>

\* the literal "${STEP_" tested before any replacement
StepMarker == <<"$", "{", "S", "T", "E", "P", "_">>

SuffixText == <<" ", "s", "u", "f", "f", "i", "x">>

ErrorPrefix == <<"E", "R", "R", "O", "R", ":">>

BlankLine == <<"\n", "\n">>

-----------------------------------------------------------------------------
(* Values and dicts *)

Str(t) == [k |-> "str", v |-> t]
Num(n) == [k |-> "int", v |-> n]
Float(n) == [k |-> "float", v |-> n]
Bool(b) == [k |-> "bool", v |-> b]
Dict(d) == [k |-> "dict", v |-> d]
\* a list of values
List(items) == [k |-> "list", v |-> items]

EmptyDict == [x \in {} |-> Str(EmptyText)]

\* Python's None where a dict was expected
NoDict == [k |-> "none", v |-> EmptyText]

\* d[key] = val
Put(d, key, val) ==
    [x \in DOMAIN d \cup {key} |-> IF x = key THEN val ELSE d[x]]

\* d.pop(key, None)
Remove(d, key) == [x \in DOMAIN d \ {key} |-> d[x]]

\* isinstance(d.get(key), dict)
HasDict(d, key) == key \in DOMAIN d /\ d[key].k = "dict"

-----------------------------------------------------------------------------
(* Capability graph *)

ToolKey(server, tool) == [server |-> server, tool |-> tool]

\* ToolSchema(name, parameters=...)
ToolSchema(name, parameters) == [name |-> name, parameters |-> parameters]

NoParameters == [x \in {} |-> "string"]

\* The entries of DEFAULT_CAPABILITIES the model keeps, each with the
\* parameters the source declares.
DEFAULT_CAPABILITIES ==
    [server \in {"arithmetic", "differentiation", "grammar", "translate",
                 "youtube", "tiktok", "google_ads"} |->
        CASE server = "arithmetic" ->
               << ToolSchema("add", [p \in {"a", "b"} |-> "number"]) >>
          [] server = "differentiation" ->
               << ToolSchema("derivative",
                             [p \in {"expression", "variable", "order"} |->
                                 IF p = "order" THEN "integer" ELSE "string"]) >>
          [] server = "grammar" ->
               << ToolSchema("check_grammar",
                             [p \in {"text", "use_languagetool"} |->
                                 IF p = "text" THEN "string" ELSE "boolean"]) >>
          [] server = "translate" ->
               << ToolSchema("translate_to_english",
                             [p \in {"text", "source_language"} |-> "string"]),
                  ToolSchema("translate_from_english",
                             [p \in {"text", "target_language"} |-> "string"]) >>
          [] server = "youtube" ->
               << ToolSchema("refresh_token", NoParameters),
                  ToolSchema("list_videos", NoParameters),
                  ToolSchema("upload_video",
                             [p \in {"file", "title", "description", "tags",
                                     "categoryId", "privacyStatus"} |->
                                 IF p = "tags" THEN "list" ELSE "string"]) >>
          [] server = "tiktok" ->
               << ToolSchema("tiktok_get_post_details",
                             [p \in {"tiktok_url"} |-> "string"]),
                  ToolSchema("tiktok_search",
                             [p \in {"query", "cursor", "search_uid"} |-> "string"]) >>
          [] server = "google_ads" ->
               << ToolSchema("create_customer", [p \in {"a"} |-> "string"]),
                  ToolSchema("add_campaign", [p \in {"a"} |-> "string"]) >>]

\* The keys that build_capability_graph_static adds for one server, in order.
ServerToolKeys(server) ==
    IF server \in DOMAIN DEFAULT_CAPABILITIES
    THEN [i \in 1..Len(DEFAULT_CAPABILITIES[server]) |->
            ToolKey(server, DEFAULT_CAPABILITIES[server][i].name)]
    ELSE <<>>

RECURSIVE build_capability_graph_static(_)
\* server_scripts is the sequence of the configured server keys; the result
\* is graph.tools, as its keys in insertion order.
build_capability_graph_static(server_scripts) ==
    IF Len(server_scripts) = 0 THEN <<>>
    ELSE ServerToolKeys(Head(server_scripts))
           \o build_capability_graph_static(Tail(server_scripts))

\* server keys that contain "tiktok"
ContainsTikTok(server) == server \in {"tiktok", "my_tiktok"}

\* the keys under which a server registers a sequence of tool names
KeysOf(server, names) == [i \in 1..Len(names) |-> ToolKey(server, names[i])]

CatalogNames(server) ==
    [i \in 1..Len(DEFAULT_CAPABILITIES[server]) |->
        DEFAULT_CAPABILITIES[server][i].name]

\* ServerTools in which a server whose discovery raised gets no defaults
ServerTools_NoDefaultsAfterRaise(server, outcome) ==
    IF Len(outcome.tools) > 0 THEN KeysOf(server, outcome.tools)
    ELSE IF outcome.raised THEN <<>>
    ELSE IF server \in DOMAIN DEFAULT_CAPABILITIES
    THEN KeysOf(server, CatalogNames(server))
    ELSE IF ContainsTikTok(server)
    THEN KeysOf(server, CatalogNames("tiktok"))
    ELSE <<>>

\* The keys that build_capability_graph adds for one server. outcome is what
\* discovery did: the tool names it registered, and whether an exception
\* ended it (caught by "except Exception"). Without discovered tools the
\* defaults of the catalog are used.
ServerTools(server, outcome) ==
    IF Len(outcome.tools) > 0 THEN KeysOf(server, outcome.tools)
    ELSE IF server \in DOMAIN DEFAULT_CAPABILITIES
    THEN KeysOf(server, CatalogNames(server))
    ELSE IF ContainsTikTok(server)
    THEN KeysOf(server, CatalogNames("tiktok"))
    ELSE <<>>

RECURSIVE build_capability_graph(_, _)
\* scripts is the sequence of the entries [key, command] of server_scripts,
\* command telling whether the entry has a command; an entry without one is
\* skipped ("if not command: continue"). The result is graph.tools.
build_capability_graph(scripts, disc) ==
    IF Len(scripts) = 0 THEN <<>>
    ELSE IF ~Head(scripts).command
    THEN build_capability_graph(Tail(scripts), disc)
    ELSE ServerTools(Head(scripts).key, disc[Head(scripts).key])
           \o build_capability_graph(Tail(scripts), disc)

\* key in graph.tools
InGraph(g, key) == \E i \in 1..Len(g) : g[i] = key

\* graph.tools[key].schema.parameters; keys of the graph come from the
\* static catalog
ParametersOf(key) ==
    LET schemas == DEFAULT_CAPABILITIES[key.server]
        i == CHOOSE j \in 1..Len(schemas) : schemas[j].name = key.tool
    IN schemas[i].parameters

-----------------------------------------------------------------------------
(* Plan *)

\* PlanStep; intent is left out, it only feeds the prompt text
PlanStep(id, tool_key, args_hint, depends_on) ==
    [id |-> id, tool_key |-> tool_key, args_hint |-> args_hint,
     depends_on |-> depends_on]

\* {s.id for s in plan.steps}
PlanIds(p) == {p[i].id : i \in 1..Len(p)}

\* The step the dict comprehension {s.id: s for s in plan.steps} keeps for
\* an id: the last one of the plan with that id.
LastIndex(p, id) ==
    CHOOSE i \in 1..Len(p) :
        /\ p[i].id = id
        /\ \A j \in 1..Len(p) : p[j].id = id => j <= i

\* Position of an id in the key order of that dict: its first occurrence.
FirstIndex(p, id) ==
    CHOOSE i \in 1..Len(p) :
        /\ p[i].id = id
        /\ \A j \in 1..Len(p) : p[j].id = id => i <= j

\* pending[id]
PendingStep(p, id) == p[LastIndex(p, id)]

\* deps[id]
Deps(p, id) == PendingStep(p, id).depends_on

-----------------------------------------------------------------------------
(* orchestrate.run_step: from the synthesized arguments to the arguments   *)
(* sent to the tool                                                        *)

\* ResultIds that leaves out the steps whose result is an "ERROR:" text
ResultIds_Succeeded(res) ==
    {res[i].sid : i \in {j \in 1..Len(res) : ~StartsWith(res[j].out, ErrorPrefix)}}

\* results is the sequence of the (sid, out) items of the results dict
ResultIds(res) == {res[i].sid : i \in 1..Len(res)}

\* results[sid]
ResultOf(res, sid) ==
    res[CHOOSE i \in 1..Len(res) : res[i].sid = sid].out

RECURSIVE InterpolateText(_, _, _)
\* The inner loop over results.items() for one string v: every assignment
\* is computed from v itself, cur is args[k] so far.
InterpolateText(v, cur, res) ==
    IF Len(res) = 0 THEN cur
    ELSE LET placeholder == Placeholder(Head(res).sid)
         IN InterpolateText(
                v,
                IF Contains(v, placeholder)
                THEN Replace(v, placeholder, Head(res).out)
                ELSE cur,
                Tail(res))

\* the loop "for k, v in list(args.items())" that replaces ${..._OUTPUT}
Interpolate(args, res) ==
    [key \in DOMAIN args |->
        IF args[key].k = "str" /\ Contains(args[key].v, StepMarker)
        THEN Str(InterpolateText(args[key].v, args[key].v, res))
        ELSE args[key]]

\* MergeHints in which a top-level hint replaces the generated value
MergeHints_HintWins(args, hint) ==
    LET plain == {hk \in DOMAIN hint :
                    ~(hk = "arguments" /\ hint[hk].k = "dict")}
        top == [x \in DOMAIN args \cup plain |->
                  IF x \in plain THEN hint[x] ELSE args[x]]
    IN IF ~HasDict(hint, "arguments") THEN top
       ELSE Put(top, "arguments", Dict(hint["arguments"].v))

\* the merge of step.args_hint that does not overwrite generated arguments
MergeHints(args, hint) ==
    LET plain == {hk \in DOMAIN hint :
                    ~(hk = "arguments" /\ hint[hk].k = "dict")}
        top == [x \in DOMAIN args \cup plain |->
                  IF x \in DOMAIN args THEN args[x] ELSE hint[x]]
    IN IF ~HasDict(hint, "arguments") THEN top
       ELSE LET hv == hint["arguments"].v
            IN IF ~HasDict(top, "arguments")
               THEN Put(top, "arguments", Dict(hv))
               ELSE LET existing == top["arguments"].v
                    IN Put(top, "arguments",
                           Dict([x \in DOMAIN existing \cup DOMAIN hv |->
                                   IF x \in DOMAIN existing THEN existing[x]
                                   ELSE hv[x]]))

\* the flattening of a nested 'arguments' dict onto the declared parameters
Flatten(args, parameters) ==
    IF ~HasDict(args, "arguments") THEN args
    ELSE LET nested == args["arguments"].v
             lifted == {ek \in DOMAIN parameters :
                          ek \notin DOMAIN args /\ ek \in DOMAIN nested}
         IN Remove([x \in DOMAIN args \cup lifted |->
                      IF x \in DOMAIN args THEN args[x] ELSE nested[x]],
                   "arguments")

\* the final fill of missing declared parameters from the hints
FillFromHints(args, hint, parameters) ==
    LET hint_nested == IF HasDict(hint, "arguments")
                       THEN hint["arguments"].v ELSE EmptyDict
        filled == {ek \in DOMAIN parameters :
                     /\ ek \notin DOMAIN args
                     /\ ek \in DOMAIN hint \cup DOMAIN hint_nested}
    IN [x \in DOMAIN args \cup filled |->
          IF x \in DOMAIN args THEN args[x]
          ELSE IF x \in DOMAIN hint THEN hint[x]
          ELSE hint_nested[x]]

\* int(text) / float(text) of a text of decimal digits; -1 when Python raises
RECURSIVE DigitsValue(_, _)
DigitsValue(t, acc) ==
    IF Len(t) = 0 THEN acc
    ELSE LET d == {i \in 1..10 : DecimalDigits[i] = Head(t)}
         IN IF d = {} THEN -1
            ELSE DigitsValue(Tail(t), 10 * acc + (CHOOSE i \in d : TRUE) - 1)

ParseDecimal(t) == IF Len(t) = 0 THEN -1 ELSE DigitsValue(t, 0)

TrueText == <<"T", "r", "u", "e">>
FalseText == <<"F", "a", "l", "s", "e">>

\* str(val) of a list of texts: "['x', 'y']"
ListText(items) ==
    <<"[">>
      \o Join(<<",", " ">>,
              [i \in 1..Len(items) |-> <<"'">> \o items[i].v \o <<"'">>])
      \o <<"]">>

\* str(val) of the guardrail pass, for the kinds of value the model holds;
\* the only dict that reaches it in the model is the empty one
StrOf(val) ==
    CASE val.k = "str" -> val.v
      [] val.k = "int" -> IntToText(val.v)
      [] val.k = "float" -> IntToText(val.v) \o <<".", "0">>
      [] val.k = "bool" -> IF val.v THEN TrueText ELSE FalseText
      [] val.k = "list" -> ListText(val.v)
      [] OTHER -> <<"{", "}">>

UpperLetters == <<"A", "E", "F", "L", "R", "S", "T", "U", "Y">>
LowerLetters == <<"a", "e", "f", "l", "r", "s", "t", "u", "y">>

\* Python: t.lower(), over the letters the texts of the model use
Lower(t) ==
    [i \in 1..Len(t) |->
        IF \E j \in 1..Len(UpperLetters) : UpperLetters[j] = t[i]
        THEN LowerLetters[CHOOSE j \in 1..Len(UpperLetters) :
                            UpperLetters[j] = t[i]]
        ELSE t[i]]

RECURSIVE StripLeft(_)
StripLeft(t) ==
    IF Len(t) > 0 /\ Head(t) \in {" ", "\n"} THEN StripLeft(Tail(t)) ELSE t

RECURSIVE StripRight(_)
StripRight(t) ==
    IF Len(t) > 0 /\ t[Len(t)] \in {" ", "\n"}
    THEN StripRight(SubSeq(t, 1, Len(t) - 1)) ELSE t

\* Python: t.strip()
Strip(t) == StripRight(StripLeft(t))

\* {"true", "1", "yes", "y"}
TruthyTexts ==
    {<<"t", "r", "u", "e">>, <<"1">>, <<"y", "e", "s">>, <<"y">>}

Dropped == [k |-> "dropped", v |-> EmptyText]

\* CoerceValue that keeps the value when the conversion raises
CoerceValue_KeepInvalid(val, declared) ==
    CASE declared \in {"number", "float"} ->
           IF val.k \in {"int", "float"} THEN Float(val.v)
           ELSE IF val.k = "bool" THEN Float(IF val.v THEN 1 ELSE 0)
           ELSE IF val.k = "str" /\ ParseDecimal(val.v) >= 0
                THEN Float(ParseDecimal(val.v))
           ELSE val
      [] declared \in {"integer", "int"} ->
           IF val.k \in {"int", "float"} THEN Num(val.v)
           ELSE IF val.k = "bool" THEN Num(IF val.v THEN 1 ELSE 0)
           ELSE IF val.k = "str" /\ ParseDecimal(val.v) >= 0
                THEN Num(ParseDecimal(val.v))
           ELSE val
      [] declared \in {"boolean", "bool"} ->
           IF val.k = "bool" THEN val
           ELSE Bool(Lower(Strip(StrOf(val))) \in TruthyTexts)
      [] declared \in {"dict", "object", "map", "json"} -> val
      [] OTHER -> Str(StrOf(val))

\* one parameter of the guardrail pass: the value kept, or Dropped when the
\* conversion raises
CoerceValue(val, declared) ==
    CASE declared \in {"number", "float"} ->
           IF val.k \in {"int", "float"} THEN Float(val.v)
           ELSE IF val.k = "bool" THEN Float(IF val.v THEN 1 ELSE 0)
           ELSE IF val.k = "str" /\ ParseDecimal(val.v) >= 0
                THEN Float(ParseDecimal(val.v))
           ELSE Dropped
      [] declared \in {"integer", "int"} ->
           IF val.k \in {"int", "float"} THEN Num(val.v)
           ELSE IF val.k = "bool" THEN Num(IF val.v THEN 1 ELSE 0)
           ELSE IF val.k = "str" /\ ParseDecimal(val.v) >= 0
                THEN Num(ParseDecimal(val.v))
           ELSE Dropped
      [] declared \in {"boolean", "bool"} ->
           IF val.k = "bool" THEN val
           ELSE Bool(Lower(Strip(StrOf(val))) \in TruthyTexts)
      [] declared \in {"dict", "object", "map", "json"} -> val
      [] OTHER -> Str(StrOf(val))

\* CleanArgs that sends every argument as it is
CleanArgs_PassThrough(args, parameters) == args

\* cleaned_args
CleanArgs(args, parameters) ==
    LET kept == {key \in DOMAIN parameters :
                   /\ key \in DOMAIN args
                   /\ CoerceValue(args[key], parameters[key]) # Dropped}
    IN [key \in kept |-> CoerceValue(args[key], parameters[key])]

\* run_step from the generated arguments to cleaned_args. The special case
\* of x.create_post is left out: the catalog of the model has no server "x".
StepArguments(step, generated, res) ==
    LET parameters == ParametersOf(step.tool_key)
        interpolated == Interpolate(generated, res)
        merged == MergeHints(interpolated, step.args_hint)
        flat == Flatten(merged, parameters)
        args == FillFromHints(flat, step.args_hint, parameters)
    IN CleanArgs(args, parameters)

-----------------------------------------------------------------------------
(* json.loads and safe_load_plan. json.loads is modelled for the JSON texts *)
(* of the model: objects, arrays, unsigned integers and strings without    *)
(* escapes, with space and newline as whitespace.                          *)

WhiteSpace == {" ", "\n"}

RECURSIVE SkipWs(_, _)
\* the first position from i on that holds no whitespace
SkipWs(t, i) ==
    IF i <= Len(t) /\ t[i] \in WhiteSpace THEN SkipWs(t, i + 1) ELSE i

\* a decoding step: ok, the value decoded and the position after it
Fail == [ok |-> FALSE, val |-> NoDict, pos |-> 0]
Parsed(val, pos) == [ok |-> TRUE, val |-> val, pos |-> pos]

IsDigit(c) == \E j \in 1..Len(DecimalDigits) : DecimalDigits[j] = c

\* a string that starts with the quote at i
ParseString(t, i) ==
    LET closes == {j \in (i + 1)..Len(t) : t[j] = "\""}
    IN IF closes = {} THEN Fail
       ELSE LET j == CHOOSE c \in closes : \A d \in closes : c <= d
            IN IF \E k \in (i + 1)..(j - 1) : t[k] = "\n" THEN Fail
               ELSE Parsed(Str(SubSeq(t, i + 1, j - 1)), j + 1)

\* an unsigned integer that starts with the digit at i: 0, or a run of
\* digits that does not start with 0
ParseNumber(t, i) ==
    IF t[i] = "0" THEN Parsed(Num(0), i + 1)
    ELSE LET last == CHOOSE j \in i..Len(t) :
                        /\ \A k \in i..j : IsDigit(t[k])
                        /\ j = Len(t) \/ ~IsDigit(t[j + 1])
         IN Parsed(Num(DigitsValue(SubSeq(t, i, last), 0)), last + 1)

RECURSIVE ParseValue(_, _)
RECURSIVE ParseMembers(_, _, _)
RECURSIVE ParseElements(_, _, _)

\* the members of an object from position i on, a key being expected
ParseMembers(t, i, acc) ==
    LET k == SkipWs(t, i)
    IN IF k > Len(t) \/ t[k] # "\"" THEN Fail
       ELSE LET key == ParseString(t, k)
                colon == SkipWs(t, key.pos)
            IN IF ~key.ok \/ colon > Len(t) \/ t[colon] # ":" THEN Fail
               ELSE LET member == ParseValue(t, SkipWs(t, colon + 1))
                        e == SkipWs(t, member.pos)
                    IN IF ~member.ok \/ e > Len(t) THEN Fail
                       ELSE IF t[e] = "}"
                       THEN Parsed(Dict(Put(acc, key.val.v, member.val)), e + 1)
                       ELSE IF t[e] = ","
                       THEN ParseMembers(t, e + 1, Put(acc, key.val.v, member.val))
                       ELSE Fail

\* the elements of an array from position i on, a value being expected
ParseElements(t, i, acc) ==
    LET element == ParseValue(t, SkipWs(t, i))
        e == SkipWs(t, element.pos)
    IN IF ~element.ok \/ e > Len(t) THEN Fail
       ELSE IF t[e] = "]" THEN Parsed(List(Append(acc, element.val)), e + 1)
       ELSE IF t[e] = "," THEN ParseElements(t, e + 1, Append(acc, element.val))
       ELSE Fail

\* the JSON value that starts at i
ParseValue(t, i) ==
    IF i > Len(t) THEN Fail
    ELSE IF t[i] = "{"
    THEN (IF SkipWs(t, i + 1) <= Len(t) /\ t[SkipWs(t, i + 1)] = "}"
          THEN Parsed(Dict(EmptyDict), SkipWs(t, i + 1) + 1)
          ELSE ParseMembers(t, i + 1, EmptyDict))
    ELSE IF t[i] = "["
    THEN (IF SkipWs(t, i + 1) <= Len(t) /\ t[SkipWs(t, i + 1)] = "]"
          THEN Parsed(List(<<>>), SkipWs(t, i + 1) + 1)
          ELSE ParseElements(t, i + 1, <<>>))
    ELSE IF t[i] = "\"" THEN ParseString(t, i)
    ELSE IF IsDigit(t[i]) THEN ParseNumber(t, i)
    ELSE Fail

\* json.loads(t): Fail when Python raises
json_loads(t) ==
    LET r == ParseValue(t, SkipWs(t, 1))
    IN IF r.ok /\ SkipWs(t, r.pos) > Len(t) THEN r ELSE Fail

\* t.find(c) and t.rfind(c) for one character, 0 for -1
Find(t, c) ==
    IF \E i \in 1..Len(t) : t[i] = c
    THEN CHOOSE i \in 1..Len(t) : t[i] = c /\ \A j \in 1..(i - 1) : t[j] # c
    ELSE 0

RFind(t, c) ==
    IF \E i \in 1..Len(t) : t[i] = c
    THEN CHOOSE i \in 1..Len(t) : t[i] = c /\ \A j \in (i + 1)..Len(t) : t[j] # c
    ELSE 0

EndsWith(t, p) ==
    Len(p) <= Len(t) /\ SubSeq(t, Len(t) - Len(p) + 1, Len(t)) = p

\* the grave accent, a character that a TLA+ string cannot hold
Backtick == "GRAVE"

Fence == <<Backtick, Backtick, Backtick>>

StepsKey == <<"s", "t", "e", "p", "s">>

\* what safe_load_plan returns for a decoded dict or list: data itself, or
\* {"steps": data}; NoDict when neither
AsPlanDict(r) ==
    IF r.ok /\ r.val.k = "dict" THEN r.val
    ELSE IF r.ok /\ r.val.k = "list"
    THEN Dict([x \in {StepsKey} |-> r.val])
    ELSE NoDict

\* a.update(b)
Update(a, b) ==
    [x \in DOMAIN a \cup DOMAIN b |-> IF x \in DOMAIN b THEN b[x] ELSE a[x]]

\* first attempt: the direct parse of "content or '{}'"
DirectParse(c) ==
    LET data == json_loads(IF c = EmptyText THEN <<"{", "}">> ELSE c)
    IN IF data.ok /\ data.val.k = "str"
       THEN AsPlanDict(json_loads(data.val.v))
       ELSE AsPlanDict(data)

\* second attempt: the Markdown code fences are stripped
FenceParse(c) ==
    LET text == Strip(c)
        first_newline == Find(text, "\n")
        opened == IF first_newline # 0
                  THEN SubSeq(text, first_newline + 1, Len(text)) ELSE text
        unfenced == IF ~StartsWith(text, Fence) THEN text
                    ELSE IF EndsWith(opened, Fence)
                    THEN SubSeq(opened, 1, Len(opened) - 3)
                    ELSE opened
    IN AsPlanDict(json_loads(Strip(unfenced)))

\* third attempt: the text from the first "{" to the last "}", then from the
\* first "[" to the last "]"; a snippet that does not decode ends the attempt
SnippetParse(c) ==
    LET start == Find(c, "{")
        end == RFind(c, "}")
        lstart == Find(c, "[")
        lend == RFind(c, "]")
        object == json_loads(SubSeq(c, start, end))
        array == json_loads(SubSeq(c, lstart, lend))
    IN IF start # 0 /\ end # 0 /\ end > start /\ ~object.ok THEN NoDict
       ELSE IF start # 0 /\ end # 0 /\ end > start /\ object.val.k = "dict"
       THEN object.val
       ELSE IF lstart # 0 /\ lend # 0 /\ lend > lstart /\ array.ok
                 /\ array.val.k = "list"
       THEN Dict([x \in {StepsKey} |-> array.val])
       ELSE NoDict

RECURSIVE Normalized(_, _)
\* re.sub(r"}\s*{", "}\n{", t), from position i on
Normalized(t, i) ==
    IF i > Len(t) THEN <<>>
    ELSE IF t[i] = "}" /\ SkipWs(t, i + 1) <= Len(t) /\ t[SkipWs(t, i + 1)] = "{"
    THEN <<"}", "\n", "{">> \o Normalized(t, SkipWs(t, i + 1) + 1)
    ELSE <<t[i]>> \o Normalized(t, i + 1)

RECURSIVE SplitLines(_)
\* re.split(r"\n+", t) without the empty parts, which the loop skips
SplitLines(t) ==
    IF Len(t) = 0 THEN <<>>
    ELSE LET nl == Find(t, "\n")
         IN IF nl = 0 THEN <<t>>
            ELSE IF nl = 1 THEN SplitLines(Tail(t))
            ELSE <<SubSeq(t, 1, nl - 1)>> \o SplitLines(SubSeq(t, nl + 1, Len(t)))

RECURSIVE MergeParts(_, _)
\* the loop that decodes each part and updates merged
MergeParts(parts, merged) ==
    IF Len(parts) = 0 THEN merged
    ELSE LET obj == AsPlanDict(json_loads(Strip(Head(parts))))
         IN MergeParts(Tail(parts),
                       IF obj = NoDict THEN merged ELSE Update(merged, obj.v))

\* last attempt: concatenated objects decoded line by line and merged
MergedParse(c) ==
    LET merged == MergeParts(SplitLines(Normalized(Strip(c), 1)), EmptyDict)
    IN IF merged # EmptyDict THEN Dict(merged) ELSE NoDict

\* safe_load_plan(content) for a text. The final "return {}" belongs to the
\* last except block, which a text never enters: when nothing decodes the
\* function ends without a return statement and yields None.
safe_load_plan(c) ==
    IF DirectParse(c) # NoDict THEN DirectParse(c)
    ELSE IF FenceParse(c) # NoDict THEN FenceParse(c)
    ELSE IF SnippetParse(c) # NoDict THEN SnippetParse(c)
    ELSE MergedParse(c)

-----------------------------------------------------------------------------
(* json.dumps and the text of a tool result: orchestrator._call_tool and    *)
(* mcp_client.call_tool                                                     *)

Quote == "\""

\* a value that json.dumps cannot serialize
Opaque == [k |-> "opaque", v |-> EmptyText]

RECURSIVE json_dumps(_)
RECURSIVE DumpMembers(_)
\* the members of a dict, joined; the dicts of the model hold at most one
\* key, so that the order of the keys does not matter
DumpMembers(d) ==
    IF DOMAIN d = {} THEN <<>>
    ELSE LET key == CHOOSE x \in DOMAIN d : TRUE
             member == <<Quote>> \o key \o <<Quote, ":", " ">> \o json_dumps(d[key])
         IN IF DOMAIN d = {key} THEN member
            ELSE member \o <<",", " ">> \o DumpMembers(Remove(d, key))

\* json.dumps(data, ensure_ascii=False) for a value that can be serialized
json_dumps(val) ==
    CASE val.k = "int" -> IntToText(val.v)
      [] val.k = "str" -> <<Quote>> \o val.v \o <<Quote>>
      [] val.k = "bool" -> IF val.v THEN <<"t", "r", "u", "e">>
                           ELSE <<"f", "a", "l", "s", "e">>
      [] val.k = "list" ->
           <<"[">> \o Join(<<",", " ">>,
                           [i \in 1..Len(val.v) |-> json_dumps(val.v[i])])
                  \o <<"]">>
      [] val.k = "dict" -> <<"{">> \o DumpMembers(val.v) \o <<"}">>

\* a content item: its text and json attributes (NoDict for None or for a
\* missing attribute) and str(item)
ContentItem(text, json, str) == [text |-> text, json |-> json, str |-> str]

\* a returned result: `getattr(result, "content", []) or []` and str(result)
Result(items, str) == [raised |-> FALSE, content |-> items, str |-> str]

\* session.call_tool raised exc
CallRaised(exc) == [raised |-> TRUE, content |-> <<>>, str |-> exc]

NoResult == Result(<<>>, EmptyText)

\* what a function returns: it raised exc, or it returned text
Raised(exc) == [raised |-> TRUE, text |-> exc]
Returned(text) == [raised |-> FALSE, text |-> text]

NoToolText == [orchestrator |-> Returned(EmptyText), client |-> Returned(EmptyText)]

\* the least index of a non-empty set of indices
First(indices) == CHOOSE i \in indices : \A j \in indices : i <= j

\* ExtractText that takes, item by item, the text or else the JSON payload
ExtractText_ItemByItem(result) ==
    LET items == result.content
        usable == {i \in 1..Len(items) :
                     \/ items[i].text # NoDict
                     \/ items[i].json \notin {NoDict, Opaque}}
    IN IF usable # {}
       THEN (IF items[First(usable)].text # NoDict
             THEN items[First(usable)].text.v
             ELSE json_dumps(items[First(usable)].json))
       ELSE IF Len(items) > 0 THEN items[1].str
       ELSE result.str

\* _call_tool from "content_items = ..." on: the first loop returns the
\* text of the first item whose text is not None; the second loop returns
\* the serialization of the first item whose json is not None and that
\* json.dumps accepts (a raising json.dumps is passed over); then str()
ExtractText(result) ==
    LET items == result.content
        with_text == {i \in 1..Len(items) : items[i].text # NoDict}
        with_json == {i \in 1..Len(items) : items[i].json \notin {NoDict, Opaque}}
    IN IF with_text # {} THEN items[First(with_text)].text.v
       ELSE IF with_json # {} THEN json_dumps(items[First(with_json)].json)
       ELSE IF Len(items) > 0 THEN items[1].str
       ELSE result.str

\* orchestrator._call_tool, given what session.call_tool does: an exception
\* of the call leaves the function
_call_tool(result) ==
    IF result.raised THEN Raised(result.str)
    ELSE Returned(ExtractText(result))

ToolCallFailed ==
    <<"T", "o", "o", "l", " ", "c", "a", "l", "l", " ", "f", "a", "i", "l",
      "e", "d", ":", " ">>

\* mcp_client.call_tool, given what session.call_tool does
call_tool(result) ==
    LET items == result.content
        with_text == {i \in 1..Len(items) : items[i].text # NoDict}
        with_json == {i \in 1..Len(items) : items[i].json \notin {NoDict, Opaque}}
    IN IF result.raised THEN Returned(ToolCallFailed \o result.str)
       ELSE IF Len(items) = 0 THEN Returned(result.str)
       ELSE IF with_text # {} THEN Returned(items[First(with_text)].text.v)
       ELSE IF with_json # {} THEN Returned(json_dumps(items[First(with_json)].json))
       ELSE Returned(items[1].str)

-----------------------------------------------------------------------------
(* What the collaborators of the orchestrator may do *)

\* texts a tool returns
Outputs == {<<"X">>, <<"Y">>}

\* str(exc) of a failed invocation: asyncio.TimeoutError() prints as the
\* empty text, an exception raised by the tool as its message
ExceptionTexts == {EmptyText, <<"b", "o", "o", "m">>}

\* f"ERROR: {last_exc}"
ErrorText(exc) == ErrorPrefix \o <<" ">> \o exc

\* ids the plans and the LLM replies of the model draw from
IdUniverse == {StepId(1), StepId(2), UpperStepId(1)}

\* An argument-synthesis call of the LLM: the request raises, the content
\* does not decode to a dict, or it decodes to the dict `args`.
LLMRaises == [kind |-> "raise", args |-> EmptyDict]
LLMGarbage == [kind |-> "garbage", args |-> EmptyDict]
LLMContent(args) == [kind |-> "content", args |-> args]

ArgReplies ==
    {LLMRaises, LLMGarbage}
      \cup {LLMContent([p \in {"text"} |-> Str(Placeholder(sid) \o SuffixText)]) :
              sid \in {StepId(1), UpperStepId(1)}}

\* generate_tool_args_with_llm in which undecodable content raises
generate_tool_args_with_llm_GarbageRaises(step, reply) ==
    IF DOMAIN ParametersOf(step.tool_key) = {}
    THEN [raised |-> FALSE, llm |-> "none", args |-> EmptyDict]
    ELSE IF reply.kind = "raise"
    THEN [raised |-> TRUE, llm |-> "raise", args |-> EmptyDict]
    ELSE IF reply.kind = "content"
    THEN [raised |-> FALSE, llm |-> "content", args |-> reply.args]
    ELSE [raised |-> TRUE, llm |-> "garbage", args |-> EmptyDict]

\* generate_tool_args_with_llm, given what its LLM call does; the result is
\* [raised, llm, args], llm telling what the LLM call did, "none" when no
\* call was made
generate_tool_args_with_llm(step, reply) ==
    IF DOMAIN ParametersOf(step.tool_key) = {}
    THEN [raised |-> FALSE, llm |-> "none", args |-> EmptyDict]
    ELSE IF reply.kind = "raise"
    THEN [raised |-> TRUE, llm |-> "raise", args |-> EmptyDict]
    ELSE IF reply.kind = "content"
    THEN [raised |-> FALSE, llm |-> "content", args |-> reply.args]
    ELSE [raised |-> FALSE, llm |-> "garbage", args |-> EmptyDict]

-----------------------------------------------------------------------------
(* mcp_client: llm_route_task, _normalize_arguments and handle_question *)

ServerKey == <<"s", "e", "r", "v", "e", "r">>
ToolNameKey == <<"t", "o", "o", "l">>
ArgumentsKey == <<"a", "r", "g", "u", "m", "e", "n", "t", "s">>

Arithmetic == <<"a", "r", "i", "t", "h", "m", "e", "t", "i", "c">>

\* keys of get_available_server_scripts that the model keeps; their script
\* files exist
AvailableServers == {Arithmetic, <<"x">>}

\* (None, None, None)
NoRoute == [server |-> NoDict, tool |-> NoDict, arguments |-> NoDict]

\* data.get(key), NoDict for None
Get(d, key) == IF key \in DOMAIN d THEN d[key] ELSE NoDict

\* str(value) if value is not None else None
StrOrNone(val) == IF val = NoDict THEN NoDict ELSE Str(StrOf(val))

\* llm_route_task from deepseek_api_call on, given what the LLM request
\* does: every exception inside the try block gives (None, None, None); a
\* content that decodes to no dict makes data.get raise
RouteOf(reply) ==
    LET data == json_loads(reply.content)
    IN IF reply.kind = "raise" \/ ~data.ok \/ data.val.k # "dict" THEN NoRoute
       ELSE [server |-> StrOrNone(Get(data.val.v, ServerKey)),
             tool |-> StrOrNone(Get(data.val.v, ToolNameKey)),
             arguments |-> IF Get(data.val.v, ArgumentsKey).k = "dict"
                           THEN Get(data.val.v, ArgumentsKey) ELSE NoDict]

\* Falsy that holds of no value
Falsy_Never(val) == FALSE

\* "not value" for a value that is None, a str or a dict
Falsy(val) ==
    \/ val = NoDict
    \/ val.k = "str" /\ val.v = EmptyText
    \/ val.k = "dict" /\ DOMAIN val.v = {}

\* _normalize_arguments for the servers of the model: [raised, args].
\* "arithmetic" converts a and b with float(), which raises for None and
\* for a text that is no number; "x" has no branch and returns args.
NormalizeArguments(server, tool, args) ==
    IF server = Arithmetic
    THEN LET a == CoerceValue(Get(args, <<"a">>), "number")
             b == CoerceValue(Get(args, <<"b">>), "number")
         IN IF Get(args, <<"a">>) = NoDict \/ Get(args, <<"b">>) = NoDict
                 \/ a = Dropped \/ b = Dropped
            THEN [raised |-> TRUE, args |-> EmptyDict]
            ELSE [raised |-> FALSE,
                  args |-> [x \in {<<"a">>, <<"b">>} |->
                              IF x = <<"a">> THEN a ELSE b]]
    ELSE [raised |-> FALSE, args |-> args]

RouterMessage ==
    <<"R", "o", "u", "t", "e", "r", " ", "c", "o", "u", "l", "d", " ", "n",
      "o", "t", " ", "d", "e", "t", "e", "r", "m", "i", "n", "e", " ", "s",
      "e", "r", "v", "e", "r", "/", "t", "o", "o", "l", "/", "a", "r", "g",
      "u", "m", "e", "n", "t", "s", ".", " ", "P", "l", "e", "a", "s", "e",
      " ", "r", "e", "p", "h", "r", "a", "s", "e", " ", "y", "o", "u", "r",
      " ", "q", "u", "e", "s", "t", "i", "o", "n", ".">>

SelectedServer ==
    <<"S", "e", "l", "e", "c", "t", "e", "d", " ", "s", "e", "r", "v", "e",
      "r", " ", "'">>

IsNotAvailable ==
    <<"'", " ", "i", "s", " ", "n", "o", "t", " ", "a", "v", "a", "i", "l",
      "a", "b", "l", "e", ".">>

ErrorExecutingTool ==
    <<"E", "r", "r", "o", "r", " ", "e", "x", "e", "c", "u", "t", "i", "n",
      "g", " ", "t", "o", "o", "l", " ">>

NoKeyMessage ==
    <<"O", "P", "E", "N", "A", "I", "_", "A", "P", "I", "_", "K", "E", "Y",
      " ", "i", "s", " ", "n", "o", "t", " ", "s", "e", "t", ".", " ", "E",
      "x", "p", "o", "r", "t", " ", "O", "P", "E", "N", "A", "I", "_", "A",
      "P", "I", "_", "K", "E", "Y", ".">>

NormalizeError == <<"T", "y", "p", "e", "E", "r", "r", "o", "r">>

NoRouter == [key |-> TRUE, reply |-> [kind |-> "raise", content |-> EmptyText]]
NoEffects == [launched |-> FALSE, invoked |-> FALSE]
NoAnswer == Returned(EmptyText)

\* llm_route_task returns or raises: ensure_openai_client() is called
\* before the try block, and raises RuntimeError without OPENAI_API_KEY
RouteTask ==
    /\ pc = "route"
    /\ IF ~router.key
       THEN /\ answer' = Raised(NoKeyMessage)
            /\ pc' = "answered"
            /\ UNCHANGED route
       ELSE /\ route' = RouteOf(router.reply)
            /\ pc' = "routed"
            /\ UNCHANGED answer
    /\ UNCHANGED <<router, effects, toolResult, toolText, server_entries,
                   discovered, argLLM, content, decoded, question, graph,
                   llmPlan, plan, pending, results, batch, tasks, ordered,
                   summary>>

\* handle_question from the test of the route to the launch of the server
Dispatch ==
    /\ pc = "routed"
    /\ IF Falsy(route.server) \/ Falsy(route.tool) \/ Falsy(route.arguments)
       THEN answer' = Returned(RouterMessage) /\ pc' = "answered"
       ELSE IF route.server.v \notin AvailableServers
       THEN /\ answer' = Returned(SelectedServer \o route.server.v \o IsNotAvailable)
            /\ pc' = "answered"
       ELSE IF NormalizeArguments(route.server.v, route.tool.v,
                                  route.arguments.v).raised
       THEN answer' = Raised(NormalizeError) /\ pc' = "answered"
       ELSE answer' = answer /\ pc' = "launching"
    /\ UNCHANGED <<router, route, effects, toolResult, toolText,
                   server_entries, discovered, argLLM, content, decoded,
                   question, graph, llmPlan, plan, pending, results, batch,
                   tasks, ordered, summary>>

\* the server process is launched and the session initialized, or that
\* raises exc
LaunchServer ==
    /\ pc = "launching"
    /\ \/ /\ effects' = [effects EXCEPT !.launched = TRUE]
          /\ pc' = "session"
          /\ UNCHANGED answer
       \/ \E exc \in ExceptionTexts :
             /\ effects' = [effects EXCEPT !.launched = TRUE]
             /\ answer' = Returned(ErrorExecutingTool \o route.tool.v
                                     \o <<":", " ">> \o exc)
             /\ pc' = "answered"
    /\ UNCHANGED <<router, route, toolResult, toolText, server_entries,
                   discovered, argLLM, content, decoded, question, graph,
                   llmPlan, plan, pending, results, batch, tasks, ordered,
                   summary>>

\* call_tool invokes the tool and its text is returned
InvokeTool ==
    /\ pc = "session"
    /\ effects' = [effects EXCEPT !.invoked = TRUE]
    /\ answer' = call_tool(toolResult)
    /\ pc' = "answered"
    /\ UNCHANGED <<router, route, toolResult, toolText, server_entries,
                   discovered, argLLM, content, decoded, question, graph,
                   llmPlan, plan, pending, results, batch, tasks, ordered,
                   summary>>

RouteNext == RouteTask \/ Dispatch \/ LaunchServer \/ InvokeTool

-----------------------------------------------------------------------------
(* orchestrate *)

\* A run_step task: st is its position ("created": not yet run, "calling":
\* a tool invocation is in flight, "finished": it returned (step.id, out),
\* "raised": an exception left it), attempt is the variable `attempt`,
\* calls counts the tool invocations made, llm is what the LLM call of
\* generate_tool_args_with_llm did ("none": no call was made), gen is the
\* dict that generate_tool_args_with_llm returned and args is cleaned_args.
Created == [st |-> "created", attempt |-> 0, calls |-> 0, llm |-> "none",
            gen |-> EmptyDict, args |-> EmptyDict, out |-> EmptyText]

NoTasks == [x \in {} |-> Created]

\* IsReady with any() in the place of all()
IsReady_Any(p, res, id) ==
    \/ Deps(p, id) = {}
    \/ \E d \in Deps(p, id) : d \in ResultIds(res)

\* the condition of the ready comprehension for one pending id
IsReady(p, res, id) == \A d \in Deps(p, id) : d \in ResultIds(res)

\* Ready that keeps one ready step, the first of the pending dict
Ready_OneAtATime(p, pend, res) ==
    {id \in pend :
        /\ IsReady(p, res, id)
        /\ \A other \in pend :
              IsReady(p, res, other) => FirstIndex(p, id) <= FirstIndex(p, other)}

\* the ids of the ready list
Ready(p, pend, res) == {id \in pend : IsReady(p, res, id)}

RECURSIVE InDictOrder(_, _)
\* the ids of a subset of the pending dict, in the order of its keys
InDictOrder(p, ids) ==
    IF ids = {} THEN <<>>
    ELSE LET first == CHOOSE id \in ids :
                        \A other \in ids :
                            FirstIndex(p, id) <= FirstIndex(p, other)
         IN <<first>> \o InDictOrder(p, ids \ {first})

\* ordered = [results[s.id] for s in plan.steps if s.id in results]
Ordered(p, res) ==
    LET kept == SelectSeq(p, LAMBDA s : s.id \in ResultIds(res))
    IN [i \in 1..Len(kept) |-> ResultOf(res, kept[i].id)]

\* "\n\n".join(str(v) for v in ordered)
Summary(parts) == Join(BlankLine, parts)

SomeCreated == \E id \in DOMAIN tasks : tasks[id].st = "created"
SomeRaised == \E id \in DOMAIN tasks : tasks[id].st = "raised"

\* the task that the event loop runs next for the first time
NextToStart ==
    batch[CHOOSE i \in 1..Len(batch) :
            /\ tasks[batch[i]].st = "created"
            /\ \A j \in 1..(i - 1) : tasks[batch[j]].st # "created"]

\* pending and deps are built, results is empty
OrchestrateEnter ==
    /\ pc = "orchestrate"
    /\ pending' = PlanIds(plan)
    /\ results' = <<>>
    /\ pc' = "loop"
    /\ UNCHANGED <<router, route, effects, answer, toolResult, toolText, server_entries, discovered, argLLM, content, decoded, question, graph, llmPlan, plan, batch, tasks, ordered, summary>>

\* one turn of "while pending" with a non-empty ready list: the tasks are
\* created and the ready steps leave pending
LaunchBatch ==
    /\ pc = "loop"
    /\ Ready(plan, pending, results) # {}
    /\ batch' = InDictOrder(plan, Ready(plan, pending, results))
    /\ tasks' = [id \in Ready(plan, pending, results) |-> Created]
    /\ pending' = pending \ Ready(plan, pending, results)
    /\ pc' = "gather"
    /\ UNCHANGED <<router, route, effects, answer, toolResult, toolText, server_entries, discovered, argLLM, content, decoded, question, graph, llmPlan, plan, results, ordered, summary>>

\* pending is empty or nothing is ready: the loop ends and orchestrate returns
OrchestrateReturn ==
    /\ pc = "loop"
    /\ Ready(plan, pending, results) = {}
    /\ ordered' = Ordered(plan, results)
    /\ summary' = Summary(Ordered(plan, results))
    /\ pc' = "done"
    /\ UNCHANGED <<router, route, effects, answer, toolResult, toolText, server_entries, discovered, argLLM, content, decoded, question, graph, llmPlan, plan, pending, results, batch, tasks>>

\* A task runs from its start to its first tool invocation without
\* suspending: graph lookup, argument synthesis, interpolation, merge,
\* guardrails.
StartStep ==
    /\ pc = "gather"
    /\ SomeCreated
    /\ LET id == NextToStart
           step == PendingStep(plan, id)
       IN IF ~InGraph(graph, step.tool_key)
          THEN tasks' = [tasks EXCEPT ![id].st = "raised"]
          ELSE \E reply \in argLLM :
                 LET gen == generate_tool_args_with_llm(step, reply)
                 IN IF gen.raised
                    THEN tasks' = [tasks EXCEPT ![id].st = "raised",
                                                ![id].llm = gen.llm]
                    ELSE tasks' = [tasks EXCEPT
                            ![id] = [st |-> "calling", attempt |-> 0,
                                     calls |-> 1, llm |-> gen.llm,
                                     gen |-> gen.args,
                                     args |-> StepArguments(step, gen.args, results),
                                     out |-> EmptyText]]
    /\ UNCHANGED <<router, route, effects, answer, toolResult, toolText, server_entries, discovered, argLLM, content, decoded, question, graph, llmPlan, plan, pc, pending, results, batch,
                   ordered, summary>>

\* gather(return_exceptions=False): the exception of a task leaves orchestrate
GatherRaise ==
    /\ pc = "gather"
    /\ ~SomeCreated
    /\ SomeRaised
    /\ pc' = "raised"
    /\ UNCHANGED <<router, route, effects, answer, toolResult, toolText, server_entries, discovered, argLLM, content, decoded, question, graph, llmPlan, plan, pending, results, batch, tasks,
                   ordered, summary>>

\* the tool invocation of a task returns
ToolReturns(id, out) ==
    /\ pc = "gather"
    /\ ~SomeCreated
    /\ ~SomeRaised
    /\ tasks[id].st = "calling"
    /\ tasks' = [tasks EXCEPT ![id] = [@ EXCEPT !.st = "finished",
                                                !.llm = "none",
                                                !.gen = EmptyDict,
                                                !.args = EmptyDict,
                                                !.out = out]]
    /\ UNCHANGED <<router, route, effects, answer, toolResult, toolText, server_entries, discovered, argLLM, content, decoded, question, graph, llmPlan, plan, pc, pending, results, batch,
                   ordered, summary>>

\* AfterFailure with the loop condition attempt < max_retries
AfterFailure_NoRetry(task, exc) ==
    IF task.attempt + 1 < MaxRetries
    THEN [task EXCEPT !.attempt = @ + 1, !.calls = @ + 1]
    ELSE [task EXCEPT !.st = "finished", !.attempt = @ + 1,
                      !.llm = "none", !.gen = EmptyDict, !.args = EmptyDict,
                      !.out = ErrorText(exc)]

\* the state of a task after its invocation raised or timed out with exc
AfterFailure(task, exc) ==
    IF task.attempt + 1 <= MaxRetries
    THEN [task EXCEPT !.attempt = @ + 1, !.calls = @ + 1]
    ELSE [task EXCEPT !.st = "finished", !.attempt = @ + 1,
                      !.llm = "none", !.gen = EmptyDict, !.args = EmptyDict,
                      !.out = ErrorText(exc)]

\* the tool invocation of a task raises or exceeds timeout_s
ToolFails(id, exc) ==
    /\ pc = "gather"
    /\ ~SomeCreated
    /\ ~SomeRaised
    /\ tasks[id].st = "calling"
    /\ tasks' = [tasks EXCEPT ![id] = AfterFailure(@, exc)]
    /\ UNCHANGED <<router, route, effects, answer, toolResult, toolText, server_entries, discovered, argLLM, content, decoded, question, graph, llmPlan, plan, pc, pending, results, batch,
                   ordered, summary>>

\* Merged with results rebuilt from the pairs of the batch alone
Merged_Rebuilt(res, b, t) ==
    [i \in 1..Len(b) |-> [sid |-> b[i], out |-> t[b[i]].out]]

\* results after "for sid, out in pairs: results[sid] = out"
Merged(res, b, t) ==
    res \o [i \in 1..Len(b) |-> [sid |-> b[i], out |-> t[b[i]].out]]

\* gather returns the pairs of the batch and they are stored
GatherReturn ==
    /\ pc = "gather"
    /\ \A id \in DOMAIN tasks : tasks[id].st = "finished"
    /\ results' = Merged(results, batch, tasks)
    /\ batch' = <<>>
    /\ tasks' = NoTasks
    /\ pc' = "loop"
    /\ UNCHANGED <<router, route, effects, answer, toolResult, toolText, server_entries, discovered, argLLM, content, decoded, question, graph, llmPlan, plan, pending, ordered, summary>>

OrchestrateNext ==
    \/ OrchestrateEnter
    \/ LaunchBatch
    \/ OrchestrateReturn
    \/ StartStep
    \/ GatherRaise
    \/ \E id \in DOMAIN tasks : \E out \in Outputs : ToolReturns(id, out)
    \/ \E id \in DOMAIN tasks : \E exc \in ExceptionTexts : ToolFails(id, exc)
    \/ GatherReturn

-----------------------------------------------------------------------------
(* Planning: simple_planner and llm_planner *)

\* any(k in q for k in words): a question is modelled by the set kw of the
\* literals it contains, among those the code tests
AnyIn(q, words) == \E w \in words : w \in q.kw

\* add_first_match for one hint "server." or "server.tool": the first key of
\* the graph whose text contains the hint. No question of the model contains
\* the text of a hint.
HintInKey(hint, key) ==
    /\ key.server = hint.server
    /\ hint.tool \in {"", key.tool}

add_first_match(chosen, hint, q, g) ==
    LET hits == {i \in 1..Len(g) : HintInKey(hint, g[i])}
    IN IF hits = {} THEN chosen
       ELSE LET first == CHOOSE i \in hits : \A j \in hits : i <= j
            IN Append(chosen,
                      PlanStep(StepId(Len(chosen) + 1), g[first], EmptyDict, {}))

TikTokWords == {"tiktok", "tik tok"}

AdsTopicWords == {"google ads", "googleads", "ads", "campaign", "ad group",
                  "customer"}
CreateCampaignWords == {"create campaign", "new campaign", "add campaign",
                        "start campaign", "campaign for customer"}
CreateCustomerWords == {"create customer", "new customer", "add customer",
                        "customer account"}

\* a literal that r"(?:for customer|customer)\s+(\d+)" matches, with its
\* group 1, and a literal that r"\d{9,}" matches
CustomerNumber == "customer 1"
CustomerNumberGroup == <<"1">>
LongNumber == "123456789"

UnitedStates == <<"U", "n", "i", "t", "e", "d", " ", "S", "t", "a", "t", "e", "s">>

AddCampaign == ToolKey("google_ads", "add_campaign")
CreateCustomer == ToolKey("google_ads", "create_customer")

\* the priority heuristics for Google Ads: the plan of an early return, or
\* the empty sequence when the function goes on. No question of the model
\* has a country name after "for" or "in".
PriorityAds(q, g) ==
    IF AnyIn(q, AdsTopicWords) /\ AnyIn(q, CreateCampaignWords)
         /\ AnyIn(q, {"customer", "for customer"}) /\ CustomerNumber \in q.kw
         /\ InGraph(g, AddCampaign)
    THEN <<PlanStep(StepId(1), AddCampaign,
                    [a \in {"a"} |-> Str(CustomerNumberGroup)], {})>>
    ELSE IF AnyIn(q, AdsTopicWords) /\ AnyIn(q, CreateCustomerWords)
              /\ ~AnyIn(q, {"campaign", "ad group"}) /\ LongNumber \notin q.kw
              /\ InGraph(g, CreateCustomer)
    THEN <<PlanStep(StepId(1), CreateCustomer,
                    [a \in {"a"} |-> Str(UnitedStates)], {})>>
    ELSE <<>>

\* the heuristics between the priority block and the fallback, for the
\* questions of the model: they contain none of the literals of the
\* integral, probability, venn and X heuristics, neither "delete" nor
\* "remove", and none of the literals of the later Google Ads intents; the
\* second Google Ads block repeats the tests of the priority block, which
\* chose nothing when it is reached.
Heuristics(q, g) ==
    LET derived ==
            IF AnyIn(q, {"derivative", "differentiate", "slope"})
            THEN add_first_match(<<>>, ToolKey("differentiation", "derivative"), q, g)
            ELSE <<>>
        checked ==
            IF AnyIn(q, {"grammar", "proofread"})
            THEN add_first_match(derived, ToolKey("grammar", "check_grammar"), q, g)
            ELSE derived
        translated ==
            IF AnyIn(q, {"translate", "english"})
            THEN add_first_match(checked, ToolKey("translate", ""), q, g)
            ELSE checked
        tiktoked ==
            IF Len(translated) = 0
                 /\ AnyIn(q, TikTokWords \cup {"tt video", "tiktok video",
                                              "tiktok post", "tiktok search"})
            THEN add_first_match(translated, ToolKey("tiktok", "tiktok_search"), q, g)
            ELSE translated
    IN IF Len(tiktoked) = 0 /\ "upload" \in q.kw
            /\ InGraph(g, ToolKey("youtube", "upload_video"))
       THEN <<PlanStep(StepId(1), ToolKey("youtube", "upload_video"),
                       EmptyDict, {})>>
       ELSE tiktoked

\* simple_planner without its last resort
LastResort_None(chosen, g) == chosen

\* the fallback: the first tool of the graph when nothing was chosen
LastResort(chosen, g) ==
    IF Len(chosen) = 0 /\ Len(g) > 0
    THEN <<PlanStep(StepId(1), g[1], EmptyDict, {})>>
    ELSE chosen

simple_planner(q, g) ==
    IF PriorityAds(q, g) # <<>> THEN PriorityAds(q, g)
    ELSE LastResort(Heuristics(q, g), g)

\* alias_map.get(tool_key, tool_key)
alias_map(key) ==
    CASE key = ToolKey("tiktok", "search_videos") ->
           ToolKey("tiktok", "tiktok_search")
      [] key = ToolKey("tiktok", "get_post_details") ->
           ToolKey("tiktok", "tiktok_get_post_details")
      [] key = ToolKey("tiktok", "get_subtitle") ->
           ToolKey("tiktok", "tiktok_get_subtitle")
      [] OTHER -> key

\* tool names that start with "tiktok_"
TikTokToolNames == {"tiktok_search", "tiktok_get_post_details",
                    "tiktok_get_subtitle"}

\* the tool key llm_planner looks up for a proposed key
ResolveToolKey(raw, g) ==
    LET aliased == alias_map(raw)
        same == {i \in 1..Len(g) :
                   g[i].tool = aliased.tool /\ g[i].server = "tiktok"}
    IN IF ~InGraph(g, aliased) /\ aliased.tool \in TikTokToolNames /\ same # {}
       THEN g[CHOOSE i \in same : \A j \in same : i <= j]
       ELSE aliased

RECURSIVE KeptSteps(_, _, _)
\* the loop "for idx, s in enumerate(steps_in, start=1)"; a proposed step
\* has id EmptyText when the LLM gave none
KeptSteps(steps_in, idx, g) ==
    IF idx > Len(steps_in) THEN <<>>
    ELSE LET s == steps_in[idx]
             tool_key == ResolveToolKey(s.tool_key, g)
             rest == KeptSteps(steps_in, idx + 1, g)
         IN IF ~InGraph(g, tool_key) THEN rest
            ELSE <<PlanStep(IF s.id = EmptyText THEN StepId(idx) ELSE s.id,
                            tool_key, s.args_hint, s.depends_on)>> \o rest

\* llm_planner that returns the empty list of kept steps as the plan
llm_planner_NoFallback(reply, q, g) ==
    IF reply.kind \in {"raise", "garbage"}
    THEN [raised |-> TRUE, plan |-> <<>>]
    ELSE [raised |-> FALSE, plan |-> KeptSteps(reply.steps, 1, g)]

\* llm_planner, given what its LLM call does: [raised, plan]. Content that
\* decodes to no dict makes plan_json.get raise.
llm_planner(reply, q, g) ==
    IF reply.kind \in {"raise", "garbage"}
    THEN [raised |-> TRUE, plan |-> <<>>]
    ELSE LET steps == KeptSteps(reply.steps, 1, g)
         IN [raised |-> FALSE,
             plan |-> IF Len(steps) = 0 THEN simple_planner(q, g) ELSE steps]

-----------------------------------------------------------------------------
(* answer_master_question: planning and the sanitation of the plan *)

AdsWords == {"google ads", "googleads", "ads", "campaign", "ad group"}
StoreWords == {"shopify", "store", "e-commerce"}
ShopifyWords == StoreWords \cup {"products", "orders", "inventory"}

\* the plan that the planning branches of answer_master_question produce
PlannedSteps(q, g, reply) ==
    IF AnyIn(q, AdsWords) /\ ~AnyIn(q, StoreWords)
    THEN simple_planner(q, g)
    ELSE IF AnyIn(q, ShopifyWords)
              /\ ~AnyIn(q, {"google ads", "googleads", "ads"})
    THEN (IF llm_planner(reply, q, g).raised THEN simple_planner(q, g)
          ELSE llm_planner(reply, q, g).plan)
    ELSE (IF llm_planner(reply, q, g).raised THEN simple_planner(q, g)
          ELSE llm_planner(reply, q, g).plan)

RefreshToken == ToolKey("youtube", "refresh_token")

\* removal of the youtube.refresh_token steps
RemoveRefreshSteps(p) ==
    LET removed_ids == {p[i].id : i \in {j \in 1..Len(p) :
                                           p[j].tool_key = RefreshToken}}
        kept == SelectSeq(p, LAMBDA s : s.id \notin removed_ids)
    IN IF removed_ids = {} THEN p
       ELSE [i \in 1..Len(kept) |->
               [kept[i] EXCEPT !.depends_on = @ \ removed_ids]]

TikTokSearch == ToolKey("tiktok", "tiktok_search")

\* enforcement of a tiktok.* step for a question that mentions TikTok
EnforceTikTok(p, q, g) ==
    LET has_valid_tiktok ==
            \E i \in 1..Len(p) :
                p[i].tool_key.server = "tiktok" /\ InGraph(g, p[i].tool_key)
        kept == SelectSeq(p, LAMBDA s : s.tool_key.server # "translate")
    IN IF AnyIn(q, TikTokWords) /\ ~has_valid_tiktok
       THEN IF InGraph(g, TikTokSearch)
            THEN <<PlanStep(StepId(1), TikTokSearch,
                            [a \in {"query"} |-> Str(q.text)], {})>> \o kept
            ELSE kept
       ELSE p

\* lang_map, in its order, with the literals that select each entry
lang_map ==
    << [code |-> <<"t", "a">>, literals |-> {"to tamil", "to ta"}],
       [code |-> <<"e", "s">>, literals |-> {"to spanish", "to es"}] >>

\* target_detected, EmptyText for None
TargetDetected(q) ==
    LET hits == {i \in 1..Len(lang_map) : AnyIn(q, lang_map[i].literals)}
    IN IF hits = {} THEN EmptyText
       ELSE lang_map[CHOOSE i \in hits : \A j \in hits : i <= j].code

TranslateFromEnglish == ToolKey("translate", "translate_from_english")
TranslateToEnglish == ToolKey("translate", "translate_to_english")

\* the translation step appended when the question names a target language
TranslationOverride(p, q) ==
    LET target_detected == TargetDetected(q)
        steps == SelectSeq(p, LAMBDA s : s.tool_key # TranslateToEnglish)
        first_id == IF Len(steps) > 0 THEN steps[1].id ELSE StepId(1)
    IN IF target_detected = EmptyText THEN p
       ELSE Append(steps,
                   PlanStep(StepId(Len(steps) + 1), TranslateFromEnglish,
                            [a \in {"target_language", "text"} |->
                                IF a = "text" THEN Str(Placeholder(first_id))
                                ELSE Str(target_detected)],
                            {first_id}))

\* the three sanitation passes, in the order of answer_master_question
Sanitized(p, q, g) ==
    TranslationOverride(EnforceTikTok(RemoveRefreshSteps(p), q, g), q)

\* the planning branch is taken and returns its plan; of the reply of the
\* planning LLM only its kind is kept
PlanQuestion ==
    /\ pc = "amq"
    /\ plan' = PlannedSteps(question, graph, llmPlan)
    /\ llmPlan' = [llmPlan EXCEPT !.steps = <<>>]
    /\ pc' = "sanitize"
    /\ UNCHANGED <<router, route, effects, answer, toolResult, toolText, server_entries, discovered, argLLM, content, decoded, question, graph, pending, results, batch, tasks, ordered,
                   summary>>

\* first pass: the youtube.refresh_token steps are removed
SanitizeRefresh ==
    /\ pc = "sanitize"
    /\ plan' = RemoveRefreshSteps(plan)
    /\ pc' = "enforce"
    /\ UNCHANGED <<router, route, effects, answer, toolResult, toolText, server_entries, discovered, argLLM, content, decoded,
                   question, graph, llmPlan, pending, results, batch, tasks,
                   ordered, summary>>

\* second pass: a tiktok.* step is enforced
SanitizeTikTok ==
    /\ pc = "enforce"
    /\ plan' = EnforceTikTok(plan, question, graph)
    /\ pc' = "translation"
    /\ UNCHANGED <<router, route, effects, answer, toolResult, toolText, server_entries, discovered, argLLM, content, decoded,
                   question, graph, llmPlan, pending, results, batch, tasks,
                   ordered, summary>>

\* third pass: the translation step is appended, and the plan is handed to
\* orchestrate
SanitizeTranslation ==
    /\ pc = "translation"
    /\ plan' = TranslationOverride(plan, question)
    /\ pc' = "orchestrate"
    /\ UNCHANGED <<router, route, effects, answer, toolResult, toolText, server_entries, discovered, argLLM, content, decoded,
                   question, graph, llmPlan, pending, results, batch, tasks,
                   ordered, summary>>

PlanNext ==
    PlanQuestion \/ SanitizeRefresh \/ SanitizeTikTok \/ SanitizeTranslation

-----------------------------------------------------------------------------
(* Spec: orchestrate on any plan *)

AllServers == <<"arithmetic", "translate", "youtube", "tiktok">>

QuestionText == <<"q">>

NoQuestion == [kw |-> {}, text |-> QuestionText]

NoLLMPlan == [kind |-> "none", steps |-> <<>>]

OrchToolKeys == {ToolKey("translate", "translate_from_english"),
                 ToolKey("youtube", "list_videos")}

OrchSteps ==
    {PlanStep(id, tk, EmptyDict, deps) :
        id \in IdUniverse, tk \in OrchToolKeys, deps \in SUBSET IdUniverse}

OrchPlans == UNION {[1..n -> OrchSteps] : n \in 0..MaxSteps}

Init ==
    /\ question = NoQuestion
    /\ graph = build_capability_graph_static(AllServers)
    /\ llmPlan = NoLLMPlan
    /\ plan \in OrchPlans
    /\ pc = "orchestrate"
    /\ pending = {}
    /\ results = <<>>
    /\ batch = <<>>
    /\ tasks = NoTasks
    /\ ordered = <<>>
    /\ summary = EmptyText
    /\ argLLM = ArgReplies
    /\ content = EmptyText
    /\ decoded = NoDict
    /\ server_entries = <<>>
    /\ discovered = <<>>
    /\ toolResult = NoResult
    /\ toolText = NoToolText
    /\ router = NoRouter
    /\ route = NoRoute
    /\ effects = NoEffects
    /\ answer = NoAnswer

Next == OrchestrateNext

Spec == Init /\ [][Next]_vars

-----------------------------------------------------------------------------
(* SpecBatch: orchestrate on plans of BatchSteps steps with distinct ids,  *)
(* each step depending on any set of the steps before it                   *)

BatchStepsOf(i) ==
    {PlanStep(StepId(i), tk, EmptyDict, deps) :
        tk \in OrchToolKeys, deps \in SUBSET {StepId(j) : j \in 1..(i - 1)}}

BatchPlans ==
    {p \in [1..BatchSteps -> UNION {BatchStepsOf(i) : i \in 1..BatchSteps}] :
        \A i \in 1..BatchSteps : p[i] \in BatchStepsOf(i)}

InitBatch ==
    /\ question = NoQuestion
    /\ graph = build_capability_graph_static(AllServers)
    /\ llmPlan = NoLLMPlan
    /\ plan \in BatchPlans
    /\ pc = "orchestrate"
    /\ pending = {}
    /\ results = <<>>
    /\ batch = <<>>
    /\ tasks = NoTasks
    /\ ordered = <<>>
    /\ summary = EmptyText
    /\ argLLM = {LLMRaises, LLMGarbage}
    /\ content = EmptyText
    /\ decoded = NoDict
    /\ server_entries = <<>>
    /\ discovered = <<>>
    /\ toolResult = NoResult
    /\ toolText = NoToolText
    /\ router = NoRouter
    /\ route = NoRoute
    /\ effects = NoEffects
    /\ answer = NoAnswer

SpecBatch == InitBatch /\ [][OrchestrateNext]_vars

-----------------------------------------------------------------------------
(* SpecTwoPlaceholders: orchestrate on plans of two steps followed by a     *)
(* step that depends on both, its synthesized argument naming both          *)

\* "${a_OUTPUT} ${b_OUTPUT}"
TwoPlaceholders(a, b) == Placeholder(a) \o <<" ">> \o Placeholder(b)

TwoPlaceholderArgs(a, b) == [p \in {"text"} |-> Str(TwoPlaceholders(a, b))]

\* the ids of the two first steps: the default ids, or ids in capitals
IdPairs == {<<StepId(1), StepId(2)>>, <<UpperStepId(1), UpperStepId(2)>>,
            <<UpperStepId(1), StepId(2)>>}

LastStepIds == {StepId(3), UpperStepId(3)}

TwoPlaceholderPlans ==
    {<<PlanStep(ids[1], tk1, EmptyDict, {}),
       PlanStep(ids[2], tk2, EmptyDict, {}),
       PlanStep(last, ToolKey("translate", "translate_from_english"),
                EmptyDict, {ids[1], ids[2]})>> :
        ids \in IdPairs, tk1 \in OrchToolKeys, tk2 \in OrchToolKeys,
        last \in LastStepIds}

TwoPlaceholderReplies ==
    {LLMRaises} \cup {LLMContent(TwoPlaceholderArgs(ids[1], ids[2])) : ids \in IdPairs}

InitTwoPlaceholders ==
    /\ question = NoQuestion
    /\ graph = build_capability_graph_static(AllServers)
    /\ llmPlan = NoLLMPlan
    /\ plan \in TwoPlaceholderPlans
    /\ pc = "orchestrate"
    /\ pending = {}
    /\ results = <<>>
    /\ batch = <<>>
    /\ tasks = NoTasks
    /\ ordered = <<>>
    /\ summary = EmptyText
    /\ argLLM = TwoPlaceholderReplies
    /\ content = EmptyText
    /\ decoded = NoDict
    /\ server_entries = <<>>
    /\ discovered = <<>>
    /\ toolResult = NoResult
    /\ toolText = NoToolText
    /\ router = NoRouter
    /\ route = NoRoute
    /\ effects = NoEffects
    /\ answer = NoAnswer

SpecTwoPlaceholders == InitTwoPlaceholders /\ [][OrchestrateNext]_vars

-----------------------------------------------------------------------------
(* SpecPlan, SpecAMQ: answer_master_question on any question *)

\* literals the questions of the model are made of
Keywords == {"ads", "tiktok", "to tamil", "translate"}

Questions == {[kw |-> k, text |-> QuestionText] : k \in SUBSET Keywords}

\* the configured servers: all of the catalog, or without translate and tiktok
ServerScripts == {AllServers, <<"arithmetic", "youtube">>}

\* steps the planning LLM proposes
ProposedIds == {EmptyText, StepId(1)}
ProposedToolKeys == {ToolKey("arithmetic", "add"), RefreshToken,
                     TranslateToEnglish, ToolKey("tiktok", "search_videos"),
                     ToolKey("math", "solve")}
ProposedDeps == {{}, {StepId(1)}, {StepId(2)}}

ProposedSteps ==
    {PlanStep(id, tk, EmptyDict, deps) :
        id \in ProposedIds, tk \in ProposedToolKeys, deps \in ProposedDeps}

LLMPlanReplies ==
    {[kind |-> "raise", steps |-> <<>>], [kind |-> "garbage", steps |-> <<>>]}
      \cup {[kind |-> "content", steps |-> st] :
              st \in UNION {[1..n -> ProposedSteps] : n \in 0..MaxSteps}}

InitAMQ ==
    /\ question \in Questions
    /\ \E server_scripts \in ServerScripts :
           graph = build_capability_graph_static(server_scripts)
    /\ llmPlan \in LLMPlanReplies
    /\ plan = <<>>
    /\ pc = "amq"
    /\ pending = {}
    /\ results = <<>>
    /\ batch = <<>>
    /\ tasks = NoTasks
    /\ ordered = <<>>
    /\ summary = EmptyText
    /\ argLLM = ArgReplies
    /\ content = EmptyText
    /\ decoded = NoDict
    /\ server_entries = <<>>
    /\ discovered = <<>>
    /\ toolResult = NoResult
    /\ toolText = NoToolText
    /\ router = NoRouter
    /\ route = NoRoute
    /\ effects = NoEffects
    /\ answer = NoAnswer

SpecPlan == InitAMQ /\ [][PlanNext]_vars

NextAMQ == PlanNext \/ OrchestrateNext

SpecAMQ == InitAMQ /\ [][NextAMQ]_vars

-----------------------------------------------------------------------------
(* SpecStep: orchestrate on a plan of one step, for every tool of a set of  *)
(* the catalog, every args_hint and every reply of the argument synthesis  *)

StepServers == <<"arithmetic", "differentiation", "grammar", "youtube", "tiktok">>

StepToolKeys == {ToolKey("arithmetic", "add"),
                 ToolKey("differentiation", "derivative"),
                 ToolKey("grammar", "check_grammar"),
                 ToolKey("youtube", "upload_video"),
                 ToolKey("youtube", "list_videos"),
                 TikTokSearch}

\* the two argument names that the dicts of the model use for a tool; the
\* first takes every value of ArgValues
ArgNames(key) ==
    CASE key = ToolKey("arithmetic", "add") -> <<"a", "b">>
      [] key = ToolKey("differentiation", "derivative") -> <<"order", "expression">>
      [] key = ToolKey("grammar", "check_grammar") -> <<"use_languagetool", "text">>
      [] key = ToolKey("youtube", "upload_video") -> <<"tags", "title">>
      [] key = TikTokSearch -> <<"query", "cursor">>
      [] OTHER -> <<"a", "b">>

SevenText == <<"7">>
LetterText == <<"x">>

\* values of every kind a decoded JSON object or an args_hint may hold
ArgValues == {Str(SevenText), Str(LetterText), Num(7), Float(7), Bool(TRUE),
              List(<<Str(LetterText)>>), Dict(EmptyDict)}

Absent == [k |-> "absent", v |-> EmptyText]

\* what a dict may hold under the key 'arguments'
NestedValues(name) ==
    {Absent, Str(LetterText), Dict(EmptyDict),
     Dict([x \in {name} |-> Str(SevenText)]),
     Dict([x \in {name} |-> Str(LetterText)])}

\* the dict with v1 under names[1], v2 under names[2] and nested under
\* 'arguments', each left out when Absent
MakeArgs(names, v1, v2, nested) ==
    LET keys == (IF v1 = Absent THEN {} ELSE {names[1]})
                  \cup (IF v2 = Absent THEN {} ELSE {names[2]})
                  \cup (IF nested = Absent THEN {} ELSE {"arguments"})
    IN [x \in keys |->
          IF x = names[1] THEN v1 ELSE IF x = names[2] THEN v2 ELSE nested]

\* the dicts a reply or an args_hint may be, for a tool
ArgDicts(key) ==
    {MakeArgs(ArgNames(key), v1, v2, nested) :
        v1 \in ArgValues \cup {Absent},
        v2 \in {Absent, Str(SevenText)},
        nested \in NestedValues(ArgNames(key)[2])}

InitStep ==
    /\ question = NoQuestion
    /\ graph = build_capability_graph_static(StepServers)
    /\ llmPlan = NoLLMPlan
    /\ \E key \in StepToolKeys :
          /\ \E hint \in ArgDicts(key) :
                plan = <<PlanStep(StepId(1), key, hint, {})>>
          /\ argLLM = {LLMRaises, LLMGarbage}
                        \cup {LLMContent(a) : a \in ArgDicts(key)}
    /\ pc = "orchestrate"
    /\ pending = {}
    /\ results = <<>>
    /\ batch = <<>>
    /\ tasks = NoTasks
    /\ ordered = <<>>
    /\ summary = EmptyText
    /\ content = EmptyText
    /\ decoded = NoDict
    /\ server_entries = <<>>
    /\ discovered = <<>>
    /\ toolResult = NoResult
    /\ toolText = NoToolText
    /\ router = NoRouter
    /\ route = NoRoute
    /\ effects = NoEffects
    /\ answer = NoAnswer

SpecStep == InitStep /\ [][OrchestrateNext]_vars

-----------------------------------------------------------------------------
(* SpecLoad: safe_load_plan on texts that hold JSON objects *)

\* a JSON object with one member, on one line and pretty-printed, each with
\* the mapping it encodes
Compact(key, n) ==
    [text |-> <<"{", Quote, key, Quote, ":", DecimalDigits[n + 1], "}">>,
     value |-> [x \in {<<key>>} |-> Num(n)]]

PrettyPrinted(key, n) ==
    [text |-> <<"{", "\n", " ", Quote, key, Quote, ":", " ",
                DecimalDigits[n + 1], "\n", "}">>,
     value |-> [x \in {<<key>>} |-> Num(n)]]

\* {"a":{"b":2}}
NestedObject ==
    [text |-> <<"{", Quote, "a", Quote, ":">> \o Compact("b", 2).text \o <<"}">>,
     value |-> [x \in {<<"a">>} |-> Dict(Compact("b", 2).value)]]

JsonObjects == {Compact("a", 1), Compact("b", 2), Compact("a", 3),
                PrettyPrinted("a", 1), PrettyPrinted("b", 2), NestedObject}

\* (a) a clean JSON object
CleanTexts(o) == {o.text, <<" ">> \o o.text \o <<"\n">>}

\* (b) a JSON object wrapped in Markdown code fences
FencedTexts(o) ==
    {Fence \o <<"j", "s", "o", "n", "\n">> \o o.text \o <<"\n">> \o Fence,
     Fence \o <<"\n">> \o o.text \o <<"\n">> \o Fence,
     Fence \o o.text \o Fence}

\* (c) a JSON object surrounded by prose
ProseTexts(o) ==
    {<<"S", "e", "e", " ">> \o o.text \o <<" ", "o", "k">>,
     <<"S", "e", "e", " ">> \o o.text,
     o.text \o <<" ", "o", "k">>}

\* (d) two concatenated JSON objects
ConcatTexts(o1, o2) ==
    {o1.text \o sep \o o2.text : sep \in {<<>>, <<" ">>, <<"\n">>}}

\* texts from which no stage recovers an object or a list: plain prose, a
\* bare number, a number in prose, a JSON string that holds prose
UndecodableTexts ==
    {<<"S", "e", "e">>, <<"7">>, <<"7", " ", "o", "k">>,
     <<Quote, "o", "k", Quote>>}

\* the empty text, which the direct parse replaces by "{}"
EmptyContents == {EmptyText}

Contents ==
    UNION {CleanTexts(o) \cup FencedTexts(o) \cup ProseTexts(o) : o \in JsonObjects}
      \cup UNION {ConcatTexts(o1, o2) : o1 \in JsonObjects, o2 \in JsonObjects}
      \cup UndecodableTexts \cup EmptyContents

InitLoad ==
    /\ question = NoQuestion
    /\ graph = <<>>
    /\ llmPlan = NoLLMPlan
    /\ plan = <<>>
    /\ pc = "load"
    /\ pending = {}
    /\ results = <<>>
    /\ batch = <<>>
    /\ tasks = NoTasks
    /\ ordered = <<>>
    /\ summary = EmptyText
    /\ argLLM = {}
    /\ content \in Contents
    /\ decoded = NoDict
    /\ server_entries = <<>>
    /\ discovered = <<>>
    /\ toolResult = NoResult
    /\ toolText = NoToolText
    /\ router = NoRouter
    /\ route = NoRoute
    /\ effects = NoEffects
    /\ answer = NoAnswer

\* safe_load_plan(content) returns
SafeLoadPlan ==
    /\ pc = "load"
    /\ decoded' = safe_load_plan(content)
    /\ pc' = "loaded"
    /\ UNCHANGED <<router, route, effects, answer, toolResult, toolText, server_entries, discovered, argLLM, content, question, graph, llmPlan, plan, pending,
                   results, batch, tasks, ordered, summary>>

SpecLoad == InitLoad /\ [][SafeLoadPlan]_vars

-----------------------------------------------------------------------------
(* SpecDiscover: build_capability_graph on any outcome of discovery, then  *)
(* simple_planner on the graph it returns                                  *)

\* entries of server_scripts: a path or a dict with a command, and a dict
\* without a command
Script(key) == [key |-> key, command |-> TRUE]
NoCommand(key) == [key |-> key, command |-> FALSE]

ScriptLists ==
    {<<>>,
     <<Script("google_ads"), Script("translate")>>,
     <<Script("translate"), Script("tiktok")>>,
     <<Script("custom"), Script("my_tiktok")>>,
     <<Script("youtube"), Script("google_ads")>>,
     <<Script("grammar"), Script("differentiation")>>,
     <<Script("custom"), NoCommand("tiktok")>>}

ScriptKeys(scripts) == {scripts[i].key : i \in 1..Len(scripts)}

\* what discovery does for one server: the names of the tools it registered
\* and whether an exception ended it
DiscoveryOutcomes ==
    {[raised |-> r, tools |-> t] :
        r \in BOOLEAN, t \in {<<>>, <<"ping">>, <<"ping", "pong">>}}

\* the literals of the questions given to simple_planner
SimpleKeywords ==
    {{}, {"translate"}, {"tiktok"}, {"tiktok", "translate"},
     {"derivative", "grammar"}, {"upload"}, {"ads"},
     {"campaign", "create campaign", "customer", CustomerNumber},
     {"campaign", "create campaign", "customer"},
     {"customer", "create customer"},
     {"customer", "create customer", LongNumber}}

SimpleQuestions == {[kw |-> k, text |-> QuestionText] : k \in SimpleKeywords}

InitDiscover ==
    /\ question \in SimpleQuestions
    /\ graph = <<>>
    /\ llmPlan = NoLLMPlan
    /\ plan = <<>>
    /\ pc = "discover"
    /\ pending = {}
    /\ results = <<>>
    /\ batch = <<>>
    /\ tasks = NoTasks
    /\ ordered = <<>>
    /\ summary = EmptyText
    /\ argLLM = {}
    /\ content = EmptyText
    /\ decoded = NoDict
    /\ server_entries \in ScriptLists
    /\ discovered \in [ScriptKeys(server_entries) -> DiscoveryOutcomes]
    /\ toolResult = NoResult
    /\ toolText = NoToolText
    /\ router = NoRouter
    /\ route = NoRoute
    /\ effects = NoEffects
    /\ answer = NoAnswer

\* build_capability_graph(server_scripts) returns
BuildCapabilityGraph ==
    /\ pc = "discover"
    /\ graph' = build_capability_graph(server_entries, discovered)
    /\ pc' = "plan"
    /\ UNCHANGED <<router, route, effects, answer, toolResult, toolText, server_entries, discovered, argLLM, content, decoded,
                   question, llmPlan, plan, pending, results, batch, tasks,
                   ordered, summary>>

\* simple_planner(master_question, graph) returns
SimplePlanner ==
    /\ pc = "plan"
    /\ plan' = simple_planner(question, graph)
    /\ pc' = "planned"
    /\ UNCHANGED <<router, route, effects, answer, toolResult, toolText, server_entries, discovered, argLLM, content, decoded,
                   question, graph, llmPlan, pending, results, batch, tasks,
                   ordered, summary>>

DiscoverNext == BuildCapabilityGraph \/ SimplePlanner

SpecDiscover == InitDiscover /\ [][DiscoverNext]_vars

-----------------------------------------------------------------------------
(* SpecTool: the text that _call_tool and call_tool return for any result  *)
(* of session.call_tool                                                    *)

ItemTexts == {NoDict, Str(<<"X">>), Str(EmptyText)}

JsonPayloads ==
    {NoDict, Opaque, Num(7), Compact("a", 1).value[<<"a">>],
     Dict(Compact("a", 1).value), List(<<Num(1), Str(<<"x">>)>>)}

ItemStrs == {<<"i", "1">>, <<"i", "2">>}

ContentItems ==
    {ContentItem(text, json, str) :
        text \in ItemTexts, json \in JsonPayloads, str \in ItemStrs}

ResultStr == <<"r">>

ToolResults ==
    {Result(items, ResultStr) :
        items \in UNION {[1..n -> ContentItems] : n \in 0..MaxItems}}
      \cup {CallRaised(exc) : exc \in ExceptionTexts}

InitTool ==
    /\ question = NoQuestion
    /\ graph = <<>>
    /\ llmPlan = NoLLMPlan
    /\ plan = <<>>
    /\ pc = "call"
    /\ pending = {}
    /\ results = <<>>
    /\ batch = <<>>
    /\ tasks = NoTasks
    /\ ordered = <<>>
    /\ summary = EmptyText
    /\ argLLM = {}
    /\ content = EmptyText
    /\ decoded = NoDict
    /\ server_entries = <<>>
    /\ discovered = <<>>
    /\ toolResult \in ToolResults
    /\ toolText = NoToolText
    /\ router = NoRouter
    /\ route = NoRoute
    /\ effects = NoEffects
    /\ answer = NoAnswer

\* session.call_tool has done toolResult; _call_tool and call_tool return
CallTool ==
    /\ pc = "call"
    /\ toolText' = [orchestrator |-> _call_tool(toolResult),
                    client |-> call_tool(toolResult)]
    /\ pc' = "called"
    /\ UNCHANGED <<router, route, effects, answer, toolResult, server_entries, discovered, argLLM, content,
                   decoded, question, graph, llmPlan, plan, pending, results,
                   batch, tasks, ordered, summary>>

SpecTool == InitTool /\ [][CallTool]_vars

-----------------------------------------------------------------------------
(* SpecRoute: handle_question on any reply of the routing LLM *)

\* the JSON text of an object, from the texts of its members
Member(key, value) == <<Quote>> \o key \o <<Quote, ":">> \o value
Object(members) == <<"{">> \o Join(<<",">>, members) \o <<"}">>
Quoted(t) == <<Quote>> \o t \o <<Quote>>

\* the values a reply gives for server, tool and arguments; EmptyText when
\* the key is left out
ServerTexts == {EmptyText, Quoted(<<"x">>), Quoted(Arithmetic), Quoted(<<"z">>),
                Quoted(EmptyText), <<"7">>}
ToolTexts == {EmptyText, Quoted(<<"t">>)}
ArgumentsTexts ==
    {EmptyText, <<"{", "}">>, <<"7">>, Quoted(<<"x">>),
     Object(<<Member(<<"a">>, <<"1">>)>>),
     Object(<<Member(<<"a">>, <<"1">>), Member(<<"b">>, Quoted(<<"2">>))>>),
     Object(<<Member(<<"a">>, <<"1">>), Member(<<"b">>, Quoted(<<"x">>))>>)}

\* the members that are given
Given(members) == SelectSeq(members, LAMBDA m : m[2] # EmptyText)

RouteObjects ==
    {Object([i \in 1..Len(Given(<<<<ServerKey, sv>>, <<ToolNameKey, tl>>,
                                   <<ArgumentsKey, ar>>>>)) |->
               Member(Given(<<<<ServerKey, sv>>, <<ToolNameKey, tl>>,
                              <<ArgumentsKey, ar>>>>)[i][1],
                      Given(<<<<ServerKey, sv>>, <<ToolNameKey, tl>>,
                              <<ArgumentsKey, ar>>>>)[i][2])]) :
        sv \in ServerTexts, tl \in ToolTexts, ar \in ArgumentsTexts}

\* contents that are no JSON object: an array, a number, a string, prose
NotObjects == {<<"[", "1", "]">>, <<"7">>, Quoted(<<"x">>), <<"S", "e", "e">>,
               EmptyText}

RouteReplies ==
    {[kind |-> "raise", content |-> EmptyText]}
      \cup {[kind |-> "content", content |-> c] : c \in RouteObjects \cup NotObjects}

\* what session.call_tool does in handle_question
RouteToolResults ==
    {Result(<<ContentItem(Str(<<"X">>), NoDict, <<"i", "1">>)>>, ResultStr),
     Result(<<>>, ResultStr),
     CallRaised(<<"b", "o", "o", "m">>)}

InitRoute ==
    /\ question = NoQuestion
    /\ graph = <<>>
    /\ llmPlan = NoLLMPlan
    /\ plan = <<>>
    /\ pc = "route"
    /\ pending = {}
    /\ results = <<>>
    /\ batch = <<>>
    /\ tasks = NoTasks
    /\ ordered = <<>>
    /\ summary = EmptyText
    /\ argLLM = {}
    /\ content = EmptyText
    /\ decoded = NoDict
    /\ server_entries = <<>>
    /\ discovered = <<>>
    /\ toolResult \in RouteToolResults
    /\ toolText = NoToolText
    /\ router \in {[key |-> k, reply |-> r] : k \in BOOLEAN, r \in RouteReplies}
    /\ route = NoRoute
    /\ effects = NoEffects
    /\ answer = NoAnswer

SpecRoute == InitRoute /\ [][RouteNext]_vars

-----------------------------------------------------------------------------
(* Claims about orchestrate *)

\* the step of the plan that the task of a batch id runs
TaskStep(id) == PendingStep(plan, id)

\* C1: a run_step task exists only for a step all of whose depends_on ids
\* already have an entry in the results map, so no step starts before its
\* declared dependencies have finished.
C1_LaunchedAfterDependencies ==
    \A id \in DOMAIN tasks :
        \A d \in TaskStep(id).depends_on : d \in ResultIds(results)

\* a step with a dependency has its tool invocation in flight
C1_Witness ==
    \E id \in DOMAIN tasks :
        /\ tasks[id].st = "calling"
        /\ TaskStep(id).depends_on # {}

\* C2: a step whose tool invocations all fail is invoked max_retries + 1
\* times and finishes with an "ERROR:" text; an exception of a tool
\* invocation never leaves run_step (a task that raised made no invocation);
\* a step of the same batch whose invocation returned finishes with the
\* tool's output; gather stores the output of every task of the batch, and
\* every stored result is an entry of the summary.
C2_ToolFailureIsolated ==
    /\ [](\A id \in DOMAIN tasks :
            /\ tasks[id].st = "raised" => tasks[id].calls = 0
            /\ tasks[id].st = "calling" =>
                  /\ tasks[id].attempt < tasks[id].calls
                  /\ tasks[id].calls <= MaxRetries + 1
            /\ (tasks[id].st = "finished" /\ tasks[id].attempt = tasks[id].calls) =>
                  /\ tasks[id].calls = MaxRetries + 1
                  /\ StartsWith(tasks[id].out, ErrorPrefix)
            /\ (tasks[id].st = "finished" /\ tasks[id].attempt < tasks[id].calls) =>
                  tasks[id].out \in Outputs)
    /\ [](pc = "done" =>
            \A i \in 1..Len(results) :
                \E j \in 1..Len(ordered) : ordered[j] = results[i].out)
    /\ [][results' # results =>
            \A id \in DOMAIN tasks :
                /\ id \in ResultIds(results')
                /\ ResultOf(results', id) = tasks[id].out]_vars

\* in one batch, one step has failed on every attempt and another has its
\* tool's output
C2_Witness ==
    \E a \in DOMAIN tasks : \E b \in DOMAIN tasks :
        /\ tasks[a].st = "finished"
        /\ tasks[a].attempt = MaxRetries + 1
        /\ StartsWith(tasks[a].out, ErrorPrefix)
        /\ tasks[b].st = "finished"
        /\ tasks[b].out \in Outputs

\* a depends_on id that is the id of no step of the plan
HasMissingDependency(p, i) == \E d \in p[i].depends_on : d \notin PlanIds(p)

\* step i names the id of step j in its depends_on
DependsOn(p, i, j) == p[j].id \in p[i].depends_on

RECURSIVE ReachableFrom(_, _, _)
\* the steps reached from the set `seen` along depends_on in at most n moves
ReachableFrom(p, seen, n) ==
    IF n = 0 THEN seen
    ELSE ReachableFrom(
             p,
             seen \cup {j \in 1..Len(p) : \E i \in seen : DependsOn(p, i, j)},
             n - 1)

\* step i is on a dependency cycle
OnCycle(p, i) ==
    i \in ReachableFrom(p, {j \in 1..Len(p) : DependsOn(p, i, j)}, Len(p))

\* C3 (as claimed): a step with a depends_on id that is no step's id, or on a
\* dependency cycle, is never launched and has no entry in the returned
\* steps map, hence none in the summary.
C3_StalledStepAbsent ==
    \A i \in 1..Len(plan) :
        (HasMissingDependency(plan, i) \/ OnCycle(plan, i)) =>
            /\ \A id \in DOMAIN tasks : LastIndex(plan, id) # i
            /\ pc = "done" => plan[i].id \notin ResultIds(results)

RECURSIVE UnreachableSteps(_, _, _)
\* the steps with a dependency that can never be satisfied: an id of no
\* step, or an id all of whose steps are themselves unreachable
UnreachableSteps(p, found, n) ==
    IF n = 0 THEN found
    ELSE UnreachableSteps(
             p,
             found \cup {i \in 1..Len(p) :
                           \E d \in p[i].depends_on :
                               \A j \in 1..Len(p) : p[j].id = d => j \in found},
             n - 1)

Unreachable(p, i) == i \in UnreachableSteps(p, {}, Len(p))

Acyclic(p) == \A i \in 1..Len(p) : ~OnCycle(p, i)

\* C4 (as claimed, its final state): when orchestrate has returned for a
\* plan without a dependency cycle, every step has a result or is
\* unreachable.
C4_EveryStepSettled ==
    (pc = "done" /\ Acyclic(plan)) =>
        \A i \in 1..Len(plan) :
            plan[i].id \in ResultIds(results) \/ Unreachable(plan, i)

\* the steps that ran, in plan order: a step ran when its id has a result
\* and it is the step that pending held for that id
ExecutedSteps(p, res) ==
    LET ran == {i \in 1..Len(p) :
                  p[i].id \in ResultIds(res) /\ LastIndex(p, p[i].id) = i}
    IN InDictOrder(p, {p[i].id : i \in ran})

\* C5 (as claimed): the summary is the results of the executed steps in plan
\* order joined by a blank line, one entry for each step that has a result
\* and none for a step that never ran.
C5_SummaryOfExecutedSteps ==
    pc = "done" =>
        /\ Len(ordered) = Len(ExecutedSteps(plan, results))
        /\ summary = Join(BlankLine,
                          [i \in 1..Len(ExecutedSteps(plan, results)) |->
                              ResultOf(results, ExecutedSteps(plan, results)[i])])

\* C6: an entry is added to results only when every task of the batch has
\* finished and it holds that task's final output; the entries already
\* there are kept as they are; and while tasks run, no id of results is the
\* id of a task that is running or of a step still pending.
C6_ResultsAfterCompletion ==
    /\ [](\A id \in ResultIds(results) :
            id \notin DOMAIN tasks /\ id \notin pending)
    /\ [][/\ Len(results') >= Len(results)
          /\ SubSeq(results', 1, Len(results)) = results
          /\ \A i \in (Len(results) + 1)..Len(results') :
                /\ results'[i].sid \in DOMAIN tasks
                /\ results'[i].sid \notin ResultIds(results)
                /\ \A id \in DOMAIN tasks : tasks[id].st = "finished"
                /\ tasks[results'[i].sid].out = results'[i].out]_vars

\* a step is running while results holds the result of an earlier batch
C6_Witness ==
    /\ Len(results) > 0
    /\ \E id \in DOMAIN tasks : tasks[id].st = "calling"

\* the argument dict of scenario 3: {"text": "${step_1_OUTPUT} suffix"}
Step1SuffixArgs ==
    [a \in {"text"} |-> Str(Placeholder(StepId(1)) \o SuffixText)]

\* C7 (as claimed): when the arguments synthesized for a step that depends
\* on step_1 are "${step_1_OUTPUT} suffix" and step_1 has completed, the
\* tool is invoked with step_1's result followed by " suffix".
C7_PlaceholderResolved ==
    \A id \in DOMAIN tasks :
        (/\ tasks[id].st = "calling"
         /\ tasks[id].gen = Step1SuffixArgs
         /\ StepId(1) \in TaskStep(id).depends_on
         /\ StepId(1) \in ResultIds(results)) =>
            tasks[id].args["text"] = Str(ResultOf(results, StepId(1)) \o SuffixText)

\* the steps launched so far: they left the pending dict
Launched == PlanIds(plan) \ pending

\* C25: batches are strictly sequential. Every step launched so far is a
\* task of the current batch or has its result stored; a step is launched
\* only when every task launched before it has finished, retries included;
\* and a batch holds every pending step whose dependencies all have results
\* when it is formed.
C25_BatchesSequential ==
    /\ [](pc \in {"loop", "gather"} =>
            \A id \in Launched : id \in DOMAIN tasks \/ id \in ResultIds(results))
    /\ [][(\E id \in DOMAIN tasks' : id \notin DOMAIN tasks) =>
            /\ \A id \in DOMAIN tasks : tasks[id].st = "finished"
            /\ \A id \in Launched : id \in ResultIds(results)
            /\ \A id \in pending :
                  (\A d \in Deps(plan, id) : d \in ResultIds(results)) =>
                      id \in DOMAIN tasks']_vars

\* step_3 depends on step_1 alone; the task of step_1 has finished, the task
\* of step_2 of the same batch is at its retry, and step_3 is still pending
C25_Witness ==
    /\ pc = "gather"
    /\ DOMAIN tasks = {StepId(1), StepId(2)}
    /\ tasks[StepId(1)].st = "finished"
    /\ tasks[StepId(2)].st = "calling"
    /\ tasks[StepId(2)].attempt = 1
    /\ StepId(3) \in pending
    /\ Deps(plan, StepId(3)) = {StepId(1)}

-----------------------------------------------------------------------------
(* Claims about answer_master_question *)

\* C8 (as claimed): answer_master_question never raises.
C8_NeverRaises == pc # "raised"

\* C9 (as claimed): in the plan handed to orchestrate, every depends_on id
\* is the id of another step of the plan.
C9_DependenciesInPlan ==
    pc = "orchestrate" =>
        \A i \in 1..Len(plan) : \A d \in plan[i].depends_on :
            \E j \in 1..Len(plan) : j # i /\ plan[j].id = d

\* C10 (as claimed): in the plan handed to orchestrate, step ids are
\* pairwise distinct.
C10_DistinctIds ==
    pc = "orchestrate" =>
        \A i \in 1..Len(plan) : \A j \in 1..Len(plan) :
            i # j => plan[i].id # plan[j].id

\* C11 (as claimed): every step of the plan handed to orchestrate has a
\* tool_key that is a key of graph.tools.
C11_ToolKeysInGraph ==
    pc = "orchestrate" =>
        \A i \in 1..Len(plan) : InGraph(graph, plan[i].tool_key)

\* C12 (as claimed): for a question containing "to tamil", the plan handed
\* to orchestrate ends with a translate.translate_from_english step whose
\* target_language hint is "ta" and whose depends_on is exactly the id of
\* the first surviving step, which is the first step of the handed plan.
C12_TranslationStepAppended ==
    (pc = "orchestrate" /\ "to tamil" \in question.kw) =>
        /\ Len(plan) >= 2
        /\ plan[1].tool_key # TranslateToEnglish
        /\ plan[Len(plan)].tool_key = TranslateFromEnglish
        /\ "target_language" \in DOMAIN plan[Len(plan)].args_hint
        /\ plan[Len(plan)].args_hint["target_language"] = Str(<<"t", "a">>)
        /\ plan[Len(plan)].depends_on = {plan[1].id}

\* C13 (as claimed): when the translation step appended by the sanitation
\* pass is invoked, the first step has a result and the text argument sent
\* to translate_from_english is that result.
C13_TranslationReceivesFirstResult ==
    \A id \in DOMAIN tasks :
        (/\ "to tamil" \in question.kw
         /\ tasks[id].st = "calling"
         /\ Len(plan) >= 2
         /\ LastIndex(plan, id) = Len(plan)) =>
            /\ plan[1].id \in ResultIds(results)
            /\ "text" \in DOMAIN tasks[id].args
            /\ tasks[id].args["text"] = Str(ResultOf(results, plan[1].id))

\* every step the planning LLM proposed names a tool key that, once
\* resolved through the aliases, is no key of the graph
AllProposedUnknown(reply, g) ==
    /\ reply.kind = "content"
    /\ \A i \in 1..Len(reply.steps) :
          ~InGraph(g, ResolveToolKey(reply.steps[i].tool_key, g))

\* C14: when the planning LLM call raises, its content decodes to no plan,
\* or every step it proposes names an unknown tool, answer_master_question
\* goes on to the sanitation with the plan simple_planner returns for the
\* same question and graph.
C14_FallbackToSimplePlanner ==
    [][(/\ pc = "amq"
        /\ \/ llmPlan.kind \in {"raise", "garbage"}
           \/ AllProposedUnknown(llmPlan, graph)) =>
          /\ pc' = "sanitize"
          /\ plan' = simple_planner(question, graph)]_vars

\* the planning LLM call failed and the plan is simple_planner's step
C14_Witness ==
    /\ pc = "sanitize"
    /\ llmPlan.kind \in {"raise", "garbage"}
    /\ ~AnyIn(question, AdsWords)
    /\ Len(plan) = 1
    /\ plan = simple_planner(question, graph)

\* C23 (as claimed): when the question mentions TikTok and the graph has
\* tiktok.tiktok_search, the plan handed to orchestrate contains a tiktok.*
\* step, and when orchestrate has returned the tool of a tiktok.* step was
\* invoked (the step has a result).
C23_TikTokStepInvoked ==
    (AnyIn(question, TikTokWords) /\ InGraph(graph, TikTokSearch)) =>
        /\ pc \notin {"amq", "sanitize", "enforce", "translation"} =>
              \E i \in 1..Len(plan) : plan[i].tool_key.server = "tiktok"
        /\ pc = "done" =>
              \E id \in ResultIds(results) :
                  PendingStep(plan, id).tool_key.server = "tiktok"

\* the ids of the youtube.refresh_token steps of a plan
RefreshIds(p) == {p[i].id : i \in {j \in 1..Len(p) : p[j].tool_key = RefreshToken}}

\* the steps of a plan that do not target youtube.refresh_token, in their
\* order, each without its dependencies on the refresh steps
WithoutRefresh(p) ==
    LET others == SelectSeq(p, LAMBDA st : st.tool_key # RefreshToken)
    IN [i \in 1..Len(others) |->
          [others[i] EXCEPT !.depends_on = @ \ RefreshIds(p)]]

\* C24 (as claimed): the refresh pass of the sanitation leaves a plan with no
\* youtube.refresh_token step, in which no depends_on holds the id of a
\* removed step, and which keeps every other step, in the original order
\* and with its other dependencies unchanged.
C24_RefreshStepsRemoved ==
    [][(pc = "sanitize" /\ pc' = "enforce") =>
          /\ \A i \in 1..Len(plan') : plan'[i].tool_key # RefreshToken
          /\ \A i \in 1..Len(plan') : plan'[i].depends_on \cap RefreshIds(plan) = {}
          /\ plan' = WithoutRefresh(plan)]_vars

-----------------------------------------------------------------------------
(* Claims about the argument pipeline of run_step *)

\* the declared parameters of the tool of a task's step
TaskParameters(id) == ParametersOf(TaskStep(id).tool_key)

\* the args_hint has a value for p, at top level or nested under 'arguments'
HintHas(hint, p) ==
    \/ p \in DOMAIN hint
    \/ HasDict(hint, "arguments") /\ p \in DOMAIN hint["arguments"].v

\* that value, the top-level one first
HintValue(hint, p) ==
    IF p \in DOMAIN hint THEN hint[p] ELSE hint["arguments"].v[p]

\* the reply of the LLM has a value for p, at top level or nested
Supplied(gen, p) ==
    \/ p \in DOMAIN gen
    \/ HasDict(gen, "arguments") /\ p \in DOMAIN gen["arguments"].v

\* p is sent to the tool as the coercion of val to p's declared type, and is
\* not sent when that coercion drops the value
SentCoerced(id, p, val) ==
    IF CoerceValue(val, TaskParameters(id)[p]) = Dropped
    THEN p \notin DOMAIN tasks[id].args
    ELSE /\ p \in DOMAIN tasks[id].args
         /\ tasks[id].args[p] = CoerceValue(val, TaskParameters(id)[p])

HasDeclaredType(val, declared) ==
    CASE declared = "string" -> val.k = "str"
      [] declared \in {"number", "float"} -> val.k = "float"
      [] declared = "integer" -> val.k = "int"
      [] declared = "boolean" -> val.k = "bool"
      [] declared \in {"object", "dict"} -> val.k = "dict"
      [] declared = "list" -> val.k = "list"
      [] OTHER -> FALSE

\* C17 (as claimed): a synthesized value that already has the declared type
\* of its parameter is sent to the tool as the same value.
C17_CoercionKeepsTypedValues ==
    \A id \in DOMAIN tasks :
        tasks[id].st = "calling" =>
            \A p \in DOMAIN TaskParameters(id) \cap DOMAIN tasks[id].gen :
                HasDeclaredType(tasks[id].gen[p], TaskParameters(id)[p]) =>
                    /\ p \in DOMAIN tasks[id].args
                    /\ tasks[id].args[p] = tasks[id].gen[p]

\* a text of decimal digits
NumericText(t) ==
    /\ Len(t) > 0
    /\ \A i \in 1..Len(t) : \E j \in 1..Len(DecimalDigits) : DecimalDigits[j] = t[i]

\* float(val) and int(val) return for the value
Convertible(val) ==
    \/ val.k \in {"int", "float", "bool"}
    \/ val.k = "str" /\ NumericText(val.v)

\* C18: when the value synthesized for a declared number or integer
\* parameter cannot be converted, the tool is still invoked, that key is
\* not among the arguments sent, and every other declared parameter whose
\* synthesized value is coercible is sent; a reply that was decoded never
\* makes the step raise.
C18_UnconvertibleNumberDropped ==
    \A id \in DOMAIN tasks :
        /\ tasks[id].llm = "content" => tasks[id].st = "calling"
        /\ tasks[id].st = "calling" =>
              \A p \in DOMAIN TaskParameters(id) \cap DOMAIN tasks[id].gen :
                  (/\ TaskParameters(id)[p] \in {"number", "integer"}
                   /\ ~Convertible(tasks[id].gen[p])) =>
                      /\ p \notin DOMAIN tasks[id].args
                      /\ \A q \in (DOMAIN TaskParameters(id) \cap DOMAIN tasks[id].gen) \ {p} :
                            SentCoerced(id, q, tasks[id].gen[q])

\* an unconvertible number was synthesized next to a convertible one, which
\* is sent
C18_Witness ==
    \E id \in DOMAIN tasks :
        /\ tasks[id].st = "calling"
        /\ \E p \in DOMAIN TaskParameters(id) \cap DOMAIN tasks[id].gen :
              /\ TaskParameters(id)[p] \in {"number", "integer"}
              /\ ~Convertible(tasks[id].gen[p])
              /\ DOMAIN tasks[id].args \ {p} # {}

\* C19: for a step whose tool declares no parameter, no LLM call is made,
\* the synthesized arguments are {} and the tool is invoked with {},
\* whatever the args_hint holds.
C19_NoParametersNoArguments ==
    \A id \in DOMAIN tasks :
        (/\ InGraph(graph, TaskStep(id).tool_key)
         /\ DOMAIN TaskParameters(id) = {}) =>
            /\ tasks[id].llm = "none"
            /\ tasks[id].st # "raised"
            /\ tasks[id].gen = EmptyDict
            /\ tasks[id].args = EmptyDict

\* a tool without parameters is invoked for a step that has an args_hint
C19_Witness ==
    \E id \in DOMAIN tasks :
        /\ tasks[id].st = "calling"
        /\ DOMAIN TaskParameters(id) = {}
        /\ TaskStep(id).args_hint # EmptyDict

-----------------------------------------------------------------------------
(* Claims about safe_load_plan *)

\* C20 (as claimed): safe_load_plan returns the encoded mapping for (a) a
\* clean JSON object, (b) one wrapped in code fences and (c) one surrounded
\* by prose; for (d) two concatenated JSON objects it returns the mapping
\* with the keys of both, the later object's value winning.
C20_TolerantDecoding ==
    pc = "loaded" =>
        /\ \A o \in JsonObjects :
              content \in CleanTexts(o) \cup FencedTexts(o) \cup ProseTexts(o) =>
                  decoded = Dict(o.value)
        /\ \A o1 \in JsonObjects : \A o2 \in JsonObjects :
              content \in ConcatTexts(o1, o2) =>
                  decoded = Dict(Update(o1.value, o2.value))

\* C21 (as claimed): safe_load_plan returns a dict for every text, and the
\* empty dict for a text from which no stage recovers an object or a list;
\* it never returns None.
C21_AlwaysADict ==
    pc = "loaded" =>
        /\ decoded.k = "dict"
        /\ content \in UndecodableTexts => decoded = Dict(EmptyDict)

-----------------------------------------------------------------------------
(* Claims about simple_planner and build_capability_graph *)

\* C22: for every question and every graph with at least one tool,
\* simple_planner returns a plan with at least one step, and every step of
\* it targets a tool of the graph.
C22_SimplePlanNotEmpty ==
    (pc = "planned" /\ Len(graph) >= 1) =>
        /\ Len(plan) >= 1
        /\ \A i \in 1..Len(plan) : InGraph(graph, plan[i].tool_key)

\* the last-resort choice: the question names translation, the graph has no
\* translate tool, and the plan is the first tool of the graph
C22_Witness ==
    /\ pc = "planned"
    /\ "translate" \in question.kw
    /\ Len(graph) >= 1
    /\ \A i \in 1..Len(graph) : graph[i].server # "translate"
    /\ Len(plan) = 1
    /\ plan[1].tool_key = graph[1]

\* the entries of graph.tools recorded for one server
ToolsOf(g, server) == SelectSeq(g, LAMBDA k : k.server = server)

\* the servers for which discovery was run: the entries with a command
Attempted == {server_entries[i].key :
                i \in {j \in 1..Len(server_entries) : server_entries[j].command}}

-----------------------------------------------------------------------------
(* Claims about the text of a tool result *)

HasText(item) == item.text # NoDict
HasJsonPayload(item) == item.json \notin {NoDict, Opaque}

\* the text the claim expects for a returned result
ExpectedText(result, text) ==
    LET items == result.content
    IN \/ \E i \in 1..Len(items) :
             /\ HasText(items[i])
             /\ \A j \in 1..(i - 1) : ~HasText(items[j])
             /\ text = items[i].text.v
       \/ /\ \A i \in 1..Len(items) : ~HasText(items[i])
          /\ \E i \in 1..Len(items) :
                /\ HasJsonPayload(items[i])
                /\ \A j \in 1..(i - 1) : ~HasJsonPayload(items[j])
                /\ json_loads(text).ok
                /\ json_loads(text).val = items[i].json
       \/ /\ \A i \in 1..Len(items) : ~HasText(items[i]) /\ ~HasJsonPayload(items[i])
          /\ Len(items) > 0
          /\ text = items[1].str
       \/ /\ Len(items) = 0
          /\ text = result.str

\* C27: for a result that session.call_tool returned, _call_tool and
\* call_tool return the text of the first content item that has text, even
\* after an item with a JSON payload; otherwise a JSON text that decodes to
\* the payload of the first item with a JSON payload; otherwise str() of the
\* first item, or of the result when it has no content.
C27_TextOfToolResult ==
    (pc = "called" /\ ~toolResult.raised) =>
        /\ ~toolText.orchestrator.raised
        /\ ExpectedText(toolResult, toolText.orchestrator.text)
        /\ ~toolText.client.raised
        /\ ExpectedText(toolResult, toolText.client.text)

\* the first item carries only a JSON payload, the second has text, and the
\* text of the second item was returned
C27_Witness ==
    /\ pc = "called"
    /\ ~toolResult.raised
    /\ Len(toolResult.content) = 2
    /\ ~HasText(toolResult.content[1])
    /\ HasJsonPayload(toolResult.content[1])
    /\ HasText(toolResult.content[2])
    /\ toolText.orchestrator = Returned(toolResult.content[2].text.v)
    /\ toolText.client = Returned(toolResult.content[2].text.v)

-----------------------------------------------------------------------------
(* Claims about handle_question *)

\* the reply of the routing LLM is a JSON object
IsObject(reply) ==
    /\ reply.kind = "content"
    /\ json_loads(reply.content).ok
    /\ json_loads(reply.content).val.k = "dict"

\* the routing failed: the LLM call was made and failed, or its reply is no
\* JSON object, or the object lacks a server, a tool or an arguments object
RoutingFailed ==
    /\ router.key
    /\ \/ router.reply.kind = "raise"
       \/ ~IsObject(router.reply)
       \/ LET data == json_loads(router.reply.content).val.v
          IN \/ ServerKey \notin DOMAIN data
             \/ ToolNameKey \notin DOMAIN data
             \/ ArgumentsKey \notin DOMAIN data
             \/ data[ArgumentsKey].k # "dict"

-----------------------------------------------------------------------------
(* A failed step as a dependency *)

\* the results dict has an entry for sid
HasResult(sid) == \E i \in 1..Len(results) : results[i].sid = sid

\* the results dict holds an "ERROR:" text for sid
HasErrorResult(sid) ==
    \E i \in 1..Len(results) :
        results[i].sid = sid /\ StartsWith(results[i].out, ErrorPrefix)

\* every dependency of the pending step id has a result, and one of them is
\* the "ERROR:" text of a failed step
ReadyAfterFailure(id) ==
    /\ \A d \in Deps(plan, id) : HasResult(d)
    /\ \E d \in Deps(plan, id) : HasErrorResult(d)

\* C29: a step that failed on every attempt counts as a satisfied
\* dependency. When gather returns, the "ERROR:" text of every task that
\* failed on all its attempts is stored in results under the step's id; a
\* pending step all of whose dependencies have results, one of them such an
\* "ERROR:" text, has its task created in the very next batch; and
\* orchestrate never returns with such a step still pending.
C29_FailedDependencySatisfied ==
    /\ [][results' # results =>
            \A id \in DOMAIN tasks :
                (tasks[id].attempt = tasks[id].calls /\ tasks[id].calls > 0) =>
                    \E i \in 1..Len(results') :
                        /\ results'[i].sid = id
                        /\ results'[i].out = tasks[id].out
                        /\ StartsWith(results'[i].out, ErrorPrefix)]_vars
    /\ [][pc = "loop" =>
            \A id \in pending :
                ReadyAfterFailure(id) =>
                    /\ pc' = "gather"
                    /\ id \in DOMAIN tasks'
                    /\ id \notin pending']_vars
    /\ [](pc = "done" => \A id \in pending : ~ReadyAfterFailure(id))

\* the tool of a step is being invoked while the result of one of its
\* dependencies is the "ERROR:" text of a failed step
C29_Witness ==
    \E id \in DOMAIN tasks :
        /\ tasks[id].st = "calling"
        /\ \E d \in TaskStep(id).depends_on : HasErrorResult(d)

-----------------------------------------------------------------------------
(* Two placeholders in one argument *)

\* C30 (as claimed): when the argument synthesized for a step is
\* "${a_OUTPUT} ${b_OUTPUT}" for two different steps a and b that both have
\* results, the tool is invoked with the result of a, a space and the
\* result of b.
C30_BothPlaceholdersReplaced ==
    \A id \in DOMAIN tasks : \A ids \in IdPairs :
        (/\ tasks[id].st = "calling"
         /\ tasks[id].gen = TwoPlaceholderArgs(ids[1], ids[2])
         /\ ids[1] \in ResultIds(results)
         /\ ids[2] \in ResultIds(results)) =>
            tasks[id].args["text"] =
                Str(ResultOf(results, ids[1]) \o <<" ">> \o ResultOf(results, ids[2]))

====
